---- MODULE Spec2Model ----
(***************************************************************************)
(* PatchVerify: the promise verification engine.                           *)
(*                                                                         *)
(*   SpecVersion : cve.check_version_fixed over version strings            *)
(*   SpecScore   : differ.file_changed_for_promise feeding                 *)
(*                 scorer.score_promise / scorer._compute_verdict          *)
(*                                                                         *)
(* Python strings whose characters matter (version strings, descriptions,  *)
(* file paths) are sequences of one-character strings.  Python's None is   *)
(* the value None below; True/False/None tri-states are "True", "False",   *)
(* "None".                                                                 *)
(***************************************************************************)
EXTENDS Integers, Sequences, FiniteSets, TLC

VARIABLES
    cve,            \* check_version_fixed: the vulnerability record argument
    new_version,    \* check_version_fixed: the candidate version string
    range_check,    \* check_version_fixed: the returned dict, or Pending
    promise,        \* the promise passed to file_changed_for_promise / score_promise
    diff_result,    \* the diff input of file_changed_for_promise
    diff_check,     \* the dict file_changed_for_promise returned
    cve_check,      \* score_promise: the version-range signal
    probe_result,   \* score_promise: the probe signal
    verdict,        \* the dict score_promise returned, or Pending
    last_call,      \* the previous completed score_promise call (inputs and verdict)
    calls,          \* number of completed score_promise calls
    zipped,         \* compute_risk_score: (verdict, cve) pairs consumed by the loop
    risk_total,     \* compute_risk_score: total_weight
    risk_exposed,   \* compute_risk_score: exposed_weight, counted in halves
    risk,           \* compute_risk_score: the returned dict, or Pending
    probe_args,     \* run_probe: per process, the bug class and ecosystem passed
    probe_pc,       \* run_probe: per process, where the invocation stands
    tmpdir,         \* run_probe: per process, the sandbox directory it holds
    tmpdirs,        \* the temporary directories that exist, with their owners
    probe_log,      \* run_probe: per process, what the invocation has done
    probe_ret,      \* run_probe: per process, the dict returned or Pending
    probe_calls,    \* run_probe: per process, invocations started
    ecosystem,      \* run_scan: what detect_ecosystem returned
    skip_probe,     \* run_scan: the skip_probe argument
    all_items,      \* run_scan: all_cves + bug_promises
    item_ix,        \* run_scan: position of the per-item loop
    new_probe,      \* run_scan: run_probe's answer for the new release
    old_probe,      \* run_scan: run_probe's answer for the old release
    verdicts,       \* run_scan: the verdicts appended so far
    scan_ret,       \* run_scan: the record returned, the exception raised, or Pending
    osv_cves,       \* run_scan: what query_osv returned
    nvd_cves,       \* run_scan: what query_nvd returned
    all_cves,       \* run_scan: what _merge_cves returned, or Pending
    history_file,   \* HISTORY_FILE: its text, or Pending while it does not exist
    history,        \* _save_scan: the local list `history`
    record,         \* _save_scan: the record of the scan being saved
    scans,          \* scans completed so far
    saver,          \* the entry point in use: scanner.run_scan or cli.scanner.run_scan
    stream_file,    \* STREAM_FILE: its content, or Pending while it does not exist
    stream_data,    \* streamer: the local dict stream_data of each scan
    stream_call,    \* cli run_scan: the streamer call each scan is at
    pc              \* position of the driver

vars == <<cve, new_version, range_check, promise, diff_result, diff_check,
          cve_check, probe_result, verdict, last_call, calls,
          zipped, risk_total, risk_exposed, risk,
          probe_args, probe_pc, tmpdir, tmpdirs, probe_log, probe_ret, probe_calls,
          ecosystem, skip_probe, all_items, item_ix, new_probe, old_probe, verdicts,
          scan_ret, osv_cves, nvd_cves, all_cves,
          history_file, history, record, scans, saver,
          stream_file, stream_data, stream_call, pc>>

versionVars == <<cve, new_version, range_check>>
scoreVars   == <<promise, diff_result, diff_check, cve_check, probe_result,
                 verdict, last_call, calls>>

riskVars    == <<zipped, risk_total, risk_exposed, risk>>
probeVars   == <<probe_args, probe_pc, tmpdir, tmpdirs, probe_log, probe_ret, probe_calls>>
scanVars    == <<ecosystem, skip_probe, all_items, item_ix, new_probe, old_probe, verdicts,
                 scan_ret>>
mergeVars   == <<osv_cves, nvd_cves, all_cves>>
historyVars == <<history_file, history, record, scans, saver>>
streamVars  == <<stream_file, stream_data, stream_call>>

\* Python None for a string-valued field (no character sequence equals it).
None == <<"None">>

\* A result that has not been produced yet.
Pending == [pending |-> TRUE]

\* Each specification below drives one component; the variables of the
\* other components stay at rest.
VersionIdle == cve = Pending /\ new_version = Pending /\ range_check = Pending

ScoreIdle ==
    /\ promise = Pending /\ diff_result = Pending /\ diff_check = Pending
    /\ cve_check = Pending /\ probe_result = Pending /\ verdict = Pending
    /\ last_call = Pending
    /\ calls = 0

RiskIdle == zipped = 0 /\ risk_total = 0 /\ risk_exposed = 0 /\ risk = Pending

ProbeIdle ==
    /\ probe_args = Pending /\ probe_pc = Pending /\ tmpdir = Pending
    /\ tmpdirs = {}
    /\ probe_log = Pending /\ probe_ret = Pending /\ probe_calls = Pending

ScanIdle ==
    /\ ecosystem = Pending /\ skip_probe = Pending /\ all_items = Pending
    /\ item_ix = 0
    /\ new_probe = Pending /\ old_probe = Pending /\ verdicts = Pending
    /\ scan_ret = Pending

MergeIdle == osv_cves = Pending /\ nvd_cves = Pending /\ all_cves = Pending

HistoryIdle ==
    /\ history_file = Pending /\ history = Pending /\ record = Pending
    /\ scans = 0
    /\ saver = Pending

StreamIdle == stream_file = Pending /\ stream_data = Pending /\ stream_call = Pending

IdleBut(components) ==
    /\ IF "version" \in components THEN TRUE ELSE VersionIdle
    /\ IF "score" \in components THEN TRUE ELSE ScoreIdle
    /\ IF "risk" \in components THEN TRUE ELSE RiskIdle
    /\ IF "probe" \in components THEN TRUE ELSE ProbeIdle
    /\ IF "scan" \in components THEN TRUE ELSE ScanIdle
    /\ IF "merge" \in components THEN TRUE ELSE MergeIdle
    /\ IF "history" \in components THEN TRUE ELSE HistoryIdle
    /\ IF "stream" \in components THEN TRUE ELSE StreamIdle

UnchangedBut(components) ==
    /\ IF "version" \in components THEN TRUE ELSE UNCHANGED versionVars
    /\ IF "score" \in components THEN TRUE ELSE UNCHANGED scoreVars
    /\ IF "risk" \in components THEN TRUE ELSE UNCHANGED riskVars
    /\ IF "probe" \in components THEN TRUE ELSE UNCHANGED probeVars
    /\ IF "scan" \in components THEN TRUE ELSE UNCHANGED scanVars
    /\ IF "merge" \in components THEN TRUE ELSE UNCHANGED mergeVars
    /\ IF "history" \in components THEN TRUE ELSE UNCHANGED historyVars
    /\ IF "stream" \in components THEN TRUE ELSE UNCHANGED streamVars

(***************************************************************************)
(* Helpers on sequences                                                    *)
(***************************************************************************)
Min(a, b) == IF a <= b THEN a ELSE b

RECURSIVE SeqsUpTo(_, _)
\* All sequences over S of length <= n.
SeqsUpTo(S, n) ==
    IF n = 0 THEN {<<>>}
    ELSE LET shorter == SeqsUpTo(S, n - 1)
         IN  shorter \cup {Append(s, c) : s \in shorter, c \in S}

(***************************************************************************)
(* packaging.version.Version, restricted to the release segment            *)
(* N(.N)* : the only form a string of digits and dots can take.  Any other *)
(* string over VerChars makes Version() raise InvalidVersion.              *)
(***************************************************************************)
Digits == <<"0", "1", "2", "3", "4", "5", "6", "7", "8", "9">>

IsDigit(c) == \E i \in DOMAIN Digits : Digits[i] = c

DigitVal(c) == (CHOOSE i \in DOMAIN Digits : Digits[i] = c) - 1

InvalidVersion == [valid |-> FALSE]

RECURSIVE ParseRelease(_, _, _, _, _)
\* Scan s from position i; num is the component being read, started tells
\* whether it has a digit yet, acc the components read so far.
ParseRelease(s, i, num, started, acc) ==
    IF i > Len(s)
    THEN IF started THEN [valid |-> TRUE, release |-> Append(acc, num)]
                    ELSE InvalidVersion
    ELSE IF IsDigit(s[i])
         THEN ParseRelease(s, i + 1, num * 10 + DigitVal(s[i]), TRUE, acc)
         ELSE IF s[i] = "." /\ started
              THEN ParseRelease(s, i + 1, 0, FALSE, Append(acc, num))
              ELSE InvalidVersion

Version(s) == IF s = None THEN InvalidVersion ELSE ParseRelease(s, 1, 0, FALSE, <<>>)

RECURSIVE StripTrailingZeros(_)
\* Version._key drops the trailing zero components of the release: 1.0 == 1.
StripTrailingZeros(r) ==
    IF Len(r) > 0 /\ r[Len(r)] = 0
    THEN StripTrailingZeros(SubSeq(r, 1, Len(r) - 1))
    ELSE r

RECURSIVE TupleLess(_, _)
\* Python's tuple ordering on integer tuples.
TupleLess(a, b) ==
    IF Len(b) = 0 THEN FALSE
    ELSE IF Len(a) = 0 THEN TRUE
    ELSE IF a[1] # b[1] THEN a[1] < b[1]
    ELSE TupleLess(Tail(a), Tail(b))

\* Python's str ordering: by code point, a proper prefix first.
LowerAlpha == <<"a", "b", "c", "d", "e", "f", "g", "h", "i", "j", "k", "l", "m",
                "n", "o", "p", "q", "r", "s", "t", "u", "v", "w", "x", "y", "z">>
UpperAlpha == <<"A", "B", "C", "D", "E", "F", "G", "H", "I", "J", "K", "L", "M",
                "N", "O", "P", "Q", "R", "S", "T", "U", "V", "W", "X", "Y", "Z">>
CodePoints == <<" ", ".", "/">> \o Digits \o UpperAlpha \o <<"_">> \o LowerAlpha

CharRank(c) == CHOOSE i \in DOMAIN CodePoints : CodePoints[i] = c

RECURSIVE StringLess(_, _)
StringLess(a, b) ==
    IF Len(b) = 0 THEN FALSE
    ELSE IF Len(a) = 0 THEN TRUE
    ELSE IF a[1] # b[1] THEN CharRank(a[1]) < CharRank(b[1])
    ELSE StringLess(Tail(a), Tail(b))

\* Version.__lt__ / __ge__ on two parsed versions.
VersionLess(a, b) == TupleLess(StripTrailingZeros(a.release), StripTrailingZeros(b.release))
VersionGe(a, b)   == ~VersionLess(a, b)

(***************************************************************************)
(* cve.check_version_fixed                                                 *)
(***************************************************************************)
\* `if fixed_in:` -- None and the empty string are falsy.
Truthy(v) == v # None /\ v # <<>>

\* The try body `Version(new_version) >= Version(x)`: the comparison, or the
\* exception it raises.  Lexical comparison is the slip the claim excludes.
TryGeLexical(nv, x) ==
    IF ~Version(nv).valid \/ ~Version(x).valid THEN "InvalidVersion"
    ELSE IF ~StringLess(nv, x) THEN "True" ELSE "False"

TryGe(nv, x) ==
    IF ~Version(nv).valid \/ ~Version(x).valid THEN "InvalidVersion"
    ELSE IF VersionGe(Version(nv), Version(x)) THEN "True" ELSE "False"

TryLt(nv, x) ==
    IF ~Version(nv).valid \/ ~Version(x).valid THEN "InvalidVersion"
    ELSE IF VersionLess(Version(nv), Version(x)) THEN "True" ELSE "False"

RangeResult(fixed, method) == [fixed |-> fixed, method |-> method, raised |-> FALSE]

NoRangeData == RangeResult("None", "no_range_data")

\* The second block: `if affected_below:` ... `except InvalidVersion: pass`.
CheckAffectedBelow(c, nv) ==
    IF Truthy(c.affected_below) /\ TryLt(nv, c.affected_below) # "InvalidVersion"
    THEN IF TryLt(nv, c.affected_below) = "True"
         THEN RangeResult("False", "version_range")
         ELSE RangeResult("True", "version_range")
    ELSE NoRangeData

\* A malformed bound reported as "still vulnerable" instead of unknown.
CheckVersionFixedMalformedNegative(c, nv) ==
    IF Truthy(c.fixed_in) /\ TryGe(nv, c.fixed_in) # "InvalidVersion"
    THEN IF TryGe(nv, c.fixed_in) = "True"
         THEN RangeResult("True", "version_range")
         ELSE RangeResult("False", "version_range")
    ELSE IF Truthy(c.fixed_in) THEN RangeResult("False", "version_range")
    ELSE CheckAffectedBelow(c, nv)

CheckVersionFixed(c, nv) ==
    IF Truthy(c.fixed_in) /\ TryGe(nv, c.fixed_in) # "InvalidVersion"
    THEN IF TryGe(nv, c.fixed_in) = "True"
         THEN RangeResult("True", "version_range")
         ELSE RangeResult("False", "version_range")
    ELSE CheckAffectedBelow(c, nv)

(***************************************************************************)
(* Inputs of check_version_fixed                                           *)
(***************************************************************************)
MaxVerLen == 2

VerChars == {"1", "2", ".", "x"}

\* The spec's own examples and the shapes short strings cannot show:
\* multi-digit components, trailing zeros, leading zeros.
SampleVersions ==
    { <<"4", ".", "1", "0", ".", "0">>, <<"4", ".", "9", ".", "0">>,
      <<"4", ".", "2", ".", "0">>,      <<"4", ".", "1", ".", "9">>,
      <<"1", ".", "0">>,                <<"0", "1">>,
      <<"1", ".", "x">> }

VersionStrings == SeqsUpTo(VerChars, MaxVerLen) \cup SampleVersions

Bounds == VersionStrings \cup {None}

InitVersion ==
    /\ cve \in [fixed_in : Bounds, affected_below : Bounds]
    /\ new_version \in VersionStrings
    /\ range_check = Pending
    /\ pc = "check_version_fixed"
    /\ IdleBut({"version"})

CallCheckVersionFixed ==
    /\ pc = "check_version_fixed"
    /\ range_check' = CheckVersionFixed(cve, new_version)
    /\ pc' = "returned"
    /\ UNCHANGED <<cve, new_version>>
    /\ UnchangedBut({"version"})

NextVersion == CallCheckVersionFixed

SpecVersion == InitVersion /\ [][NextVersion]_vars

(***************************************************************************)
(* Python dict and list helpers                                            *)
(***************************************************************************)
\* dict.get(k, default)
Get(d, k, default) == IF k \in DOMAIN d THEN d[k] ELSE default

\* list[:n]
Take(l, n) == SubSeq(l, 1, Min(n, Len(l)))

RECURSIVE Sorted(_)
\* sorted(S) for a set of strings.
Sorted(S) ==
    IF S = {} THEN <<>>
    ELSE LET least == CHOOSE x \in S : \A y \in S \ {x} : StringLess(x, y)
         IN  <<least>> \o Sorted(S \ {least})

(***************************************************************************)
(* differ._compare_hashes                                                  *)
(* old and new map relative paths to content hashes.                       *)
(***************************************************************************)
CompareHashes(old, new) ==
    LET all_files == DOMAIN old \cup DOMAIN new
        both      == DOMAIN old \cap DOMAIN new
        changed   == Sorted({f \in both : old[f] # new[f]})
        unchanged == Sorted({f \in both : old[f] = new[f]})
    IN  [ available       |-> TRUE,
          changed         |-> changed,
          unchanged       |-> unchanged,
          added           |-> Sorted(DOMAIN new \ DOMAIN old),
          removed         |-> Sorted(DOMAIN old \ DOMAIN new),
          total_files     |-> Cardinality(all_files),
          changed_count   |-> Len(changed),
          unchanged_count |-> Len(unchanged) ]

(***************************************************************************)
(* differ.file_changed_for_promise                                         *)
(***************************************************************************)
IsLowerLetter(c) == \E i \in DOMAIN LowerAlpha : LowerAlpha[i] = c

\* str.lower() of one character.
LowerChar(c) ==
    IF \E i \in DOMAIN UpperAlpha : UpperAlpha[i] = c
    THEN LowerAlpha[CHOOSE i \in DOMAIN UpperAlpha : UpperAlpha[i] = c]
    ELSE c

Lower(str) == [i \in DOMAIN str |-> LowerChar(str[i])]

\* \w on a lower-cased string.
IsWordChar(c) == IsLowerLetter(c) \/ IsDigit(c) \/ c = "_"

\* A maximal run of word characters matches [a-z][a-z0-9_]{2,} between two
\* \b when it starts with a letter and has at least three characters.
IsCandidate(run) == Len(run) >= 3 /\ IsLowerLetter(run[1])

RECURSIVE FindAll(_, _, _, _)
\* re.findall(r'\b([a-z][a-z0-9_]{2,})\b', desc): run is the word being read.
FindAll(desc, i, run, acc) ==
    LET closed == IF IsCandidate(run) THEN Append(acc, run) ELSE acc
    IN  IF i > Len(desc) THEN closed
        ELSE IF IsWordChar(desc[i])
             THEN FindAll(desc, i + 1, Append(run, desc[i]), acc)
             ELSE FindAll(desc, i + 1, <<>>, closed)

CandidateNames(desc) == FindAll(desc, 1, <<>>, <<>>)

\* `name in cf_lower`
Contains(name, str) ==
    \E i \in 1..(Len(str) - Len(name) + 1) : SubSeq(str, i, i + Len(name) - 1) = name

StopWords ==
    { <<"f", "i", "x">>, <<"t", "h", "e">>, <<"w", "a", "s">>, <<"h", "a", "s">>,
      <<"a", "n", "d">>, <<"f", "o", "r">>, <<"i", "n">> }

\* The inner loop without the stopword test.
IsRelevantStopWordsMatch(cf, candidate_names) ==
    \E k \in DOMAIN candidate_names : Contains(candidate_names[k], Lower(cf))

\* The inner loop over candidate_names for one changed file.
IsRelevant(cf, candidate_names) ==
    \E k \in DOMAIN candidate_names :
        /\ Contains(candidate_names[k], Lower(cf))
        /\ candidate_names[k] \notin StopWords

\* An unavailable diff reported as "no files changed".
FileChangedForPromiseUnavailableNegative(d, p) ==
    [ checked       |-> TRUE,
      files_changed |-> "False",
      reason        |-> <<"No files changed between versions">> ]

FileChangedForPromise(d, p) ==
    IF ~Get(d, "available", FALSE)
    THEN [ checked |-> FALSE,
           reason  |-> Get(d, "reason", <<"File diff not available.">>) ]
    ELSE LET changed          == Get(d, "changed", <<>>)
             desc             == Lower(Get(p, "description", <<>>))
             candidate_names  == CandidateNames(desc)
             Relevant(cf)     == IsRelevant(cf, candidate_names)
             relevant_changes == SelectSeq(changed, Relevant)
         IN  IF relevant_changes # <<>>
             THEN [ checked          |-> TRUE,
                    files_changed    |-> "True",
                    relevant_changes |-> Take(relevant_changes, 5),
                    reason           |-> <<"Relevant file(s) changed", Take(relevant_changes, 3)>> ]
             ELSE IF changed # <<>>
             THEN [ checked        |-> TRUE,
                    files_changed  |-> "None",
                    changed_sample |-> Take(changed, 3),
                    reason         |-> <<"file(s) changed but none clearly match", Len(changed)>> ]
             ELSE [ checked       |-> TRUE,
                    files_changed |-> "False",
                    reason        |-> <<"No files changed between versions">> ]

(***************************************************************************)
(* scorer.score_promise and scorer._compute_verdict                        *)
(* A weight is <<weight, positive>>; a signal line is <<mark, source,      *)
(* text>>.  ratio = positive_weight / total_weight is kept as the fraction *)
(* num/den: on every weight list score_promise builds, the double          *)
(* arithmetic of the code and exact arithmetic give the same integers.     *)
(***************************************************************************)
CveWeight         == 40
DiffWeight        == 35
DiffUnclearWeight == 15
ProbeWeight       == 25

RECURSIVE SumWeights(_, _)
\* sum(w for w, pos in weights if pos in polarities)
SumWeights(weights, polarities) ==
    IF weights = <<>> THEN 0
    ELSE (IF weights[1][2] \in polarities THEN weights[1][1] ELSE 0)
         + SumWeights(Tail(weights), polarities)

\* int(base + frac * scale) for a fraction frac = num/den >= 0
IntOf(base, num, den, scale) == base + ((num * scale) \div den)

\* The override computed with the constants of the low-ratio branch
\* (60 + (1 - ratio) * 35, capped at 95).
ComputeVerdictOverrideLowRatioFormula(weights, cve_fixed) ==
    LET total == SumWeights(weights, {TRUE, FALSE})
        pos   == SumWeights(weights, {TRUE})
    IN  IF weights = <<>> THEN <<"UNCONFIRMED", 30>>
        ELSE IF cve_fixed = "False"
        THEN IF 5 * pos < 2 * total
             THEN <<"NOT_FIXED", Min(IntOf(60, total - pos, total, 35), 95)>>
             ELSE <<"NOT_FIXED", 65>>
        ELSE IF 4 * pos >= 3 * total THEN <<"FIXED", Min(IntOf(70, pos, total, 28), 97)>>
        ELSE IF 2 * pos >= total THEN <<"FIXED", Min(IntOf(50, pos, total, 30), 75)>>
        ELSE IF 4 * pos >= total THEN <<"UNCONFIRMED", IntOf(30, pos, total, 30)>>
        ELSE <<"NOT_FIXED", Min(IntOf(60, total - pos, total, 35), 95)>>

\* The override always answering the flat 65.
ComputeVerdictOverrideFlat(weights, cve_fixed) ==
    LET total == SumWeights(weights, {TRUE, FALSE})
        pos   == SumWeights(weights, {TRUE})
    IN  IF weights = <<>> THEN <<"UNCONFIRMED", 30>>
        ELSE IF cve_fixed = "False" THEN <<"NOT_FIXED", 65>>
        ELSE IF 4 * pos >= 3 * total THEN <<"FIXED", Min(IntOf(70, pos, total, 28), 97)>>
        ELSE IF 2 * pos >= total THEN <<"FIXED", Min(IntOf(50, pos, total, 30), 75)>>
        ELSE IF 4 * pos >= total THEN <<"UNCONFIRMED", IntOf(30, pos, total, 30)>>
        ELSE <<"NOT_FIXED", Min(IntOf(60, total - pos, total, 35), 95)>>

\* The override scaled like the low-ratio branch but from base 70, uncapped.
ComputeVerdictOverrideUncapped(weights, cve_fixed) ==
    LET total == SumWeights(weights, {TRUE, FALSE})
        pos   == SumWeights(weights, {TRUE})
    IN  IF weights = <<>> THEN <<"UNCONFIRMED", 30>>
        ELSE IF cve_fixed = "False"
        THEN IF 5 * pos < 2 * total
             THEN <<"NOT_FIXED", IntOf(70, total - pos, total, 35)>>
             ELSE <<"NOT_FIXED", 65>>
        ELSE IF 4 * pos >= 3 * total THEN <<"FIXED", Min(IntOf(70, pos, total, 28), 97)>>
        ELSE IF 2 * pos >= total THEN <<"FIXED", Min(IntOf(50, pos, total, 30), 75)>>
        ELSE IF 4 * pos >= total THEN <<"UNCONFIRMED", IntOf(30, pos, total, 30)>>
        ELSE <<"NOT_FIXED", Min(IntOf(60, total - pos, total, 35), 95)>>

\* No override: a negative range signal is weighed like any other.
ComputeVerdictNoOverride(weights, cve_fixed) ==
    LET total == SumWeights(weights, {TRUE, FALSE})
        pos   == SumWeights(weights, {TRUE})
    IN  IF weights = <<>> THEN <<"UNCONFIRMED", 30>>
        ELSE IF 4 * pos >= 3 * total THEN <<"FIXED", Min(IntOf(70, pos, total, 28), 97)>>
        ELSE IF 2 * pos >= total THEN <<"FIXED", Min(IntOf(50, pos, total, 30), 75)>>
        ELSE IF 4 * pos >= total THEN <<"UNCONFIRMED", IntOf(30, pos, total, 30)>>
        ELSE <<"NOT_FIXED", Min(IntOf(60, total - pos, total, 35), 95)>>

\* The FIXED bands shifted: `>` where the code has `>=`.
ComputeVerdictStrictBands(weights, cve_fixed) ==
    LET total == SumWeights(weights, {TRUE, FALSE})
        pos   == SumWeights(weights, {TRUE})
    IN  IF weights = <<>> THEN <<"UNCONFIRMED", 30>>
        ELSE IF cve_fixed = "False"
        THEN IF 5 * pos < 2 * total
             THEN <<"NOT_FIXED", IntOf(70, total - pos, total, 25)>>
             ELSE <<"NOT_FIXED", 65>>
        ELSE IF 4 * pos > 3 * total THEN <<"FIXED", Min(IntOf(70, pos, total, 28), 97)>>
        ELSE IF 2 * pos > total THEN <<"FIXED", Min(IntOf(50, pos, total, 30), 75)>>
        ELSE IF 4 * pos > total THEN <<"UNCONFIRMED", IntOf(30, pos, total, 30)>>
        ELSE <<"NOT_FIXED", Min(IntOf(60, total - pos, total, 35), 95)>>

ComputeVerdict(weights, cve_fixed) ==
    LET total_weight    == SumWeights(weights, {TRUE, FALSE})
        positive_weight == SumWeights(weights, {TRUE})
        \* ratio = positive_weight / total_weight if total_weight > 0 else 0.5
        num == IF total_weight > 0 THEN positive_weight ELSE 1
        den == IF total_weight > 0 THEN total_weight ELSE 2
    IN  IF weights = <<>> THEN <<"UNCONFIRMED", 30>>
        ELSE IF cve_fixed = "False"
        THEN IF 5 * num < 2 * den                              \* ratio < 0.4
             THEN <<"NOT_FIXED", IntOf(70, den - num, den, 25)>>
             ELSE <<"NOT_FIXED", 65>>
        ELSE IF 4 * num >= 3 * den                             \* ratio >= 0.75
        THEN <<"FIXED", Min(IntOf(70, num, den, 28), 97)>>
        ELSE IF 2 * num >= den                                 \* ratio >= 0.5
        THEN <<"FIXED", Min(IntOf(50, num, den, 30), 75)>>
        ELSE IF 4 * num >= den                                 \* ratio >= 0.25
        THEN <<"UNCONFIRMED", IntOf(30, num, den, 30)>>
        ELSE <<"NOT_FIXED", Min(IntOf(60, den - num, den, 35), 95)>>

\* Signal 1: CVE version range.
CveSignal(cc) ==
    LET cve_fixed == Get(cc, "fixed", "None")
    IN  IF cve_fixed = "True"
        THEN [line |-> <<"ok", "CVE version range", Get(cc, "detail", "")>>,
              weights |-> <<<<CveWeight, TRUE>>>>]
        ELSE IF cve_fixed = "False"
        THEN [line |-> <<"bad", "CVE version range", Get(cc, "detail", "")>>,
              weights |-> <<<<CveWeight, FALSE>>>>]
        ELSE [line |-> <<"warn", "CVE range",
                         Get(cc, "detail", "No version range data in NVD/OSV.")>>,
              weights |-> <<>>]

\* Signal 2: file diff.
DiffSignal(dc) ==
    IF Get(dc, "checked", FALSE)
    THEN LET fc == Get(dc, "files_changed", "None")
         IN  IF fc = "True"
             THEN [line |-> <<"ok", "File diff", Get(dc, "reason", <<"Relevant files changed.">>)>>,
                   weights |-> <<<<DiffWeight, TRUE>>>>]
             ELSE IF fc = "False"
             THEN [line |-> <<"bad", "File diff", Get(dc, "reason", <<"No relevant files changed.">>)>>,
                   weights |-> <<<<DiffWeight, FALSE>>>>]
             ELSE [line |-> <<"warn", "File diff", Get(dc, "reason", <<"Change scope unclear.">>)>>,
                   weights |-> <<<<DiffUnclearWeight, TRUE>>>>]
    ELSE [line |-> <<"none", "File diff", Get(dc, "reason", <<"Not available.">>)>>,
          weights |-> <<>>]

\* An inconclusive probe counted as a failed one.
ProbeSignalInconclusiveNegative(pr) ==
    IF Get(pr, "ran", FALSE)
    THEN LET passed == Get(pr, "passed", "None")
         IN  IF passed = "True"
             THEN [line |-> <<"ok", "Behavioral probe", Get(pr, "message", "Passed.")>>,
                   weights |-> <<<<ProbeWeight, TRUE>>>>]
             ELSE [line |-> <<"bad", "Behavioral probe", Get(pr, "message", "Failed.")>>,
                   weights |-> <<<<ProbeWeight, FALSE>>>>]
    ELSE [line |-> <<"none", "Behavioral probe", Get(pr, "reason", "Not applicable.")>>,
          weights |-> <<>>]

\* Signal 3: behavioural probe.
ProbeSignal(pr) ==
    IF Get(pr, "ran", FALSE)
    THEN LET passed == Get(pr, "passed", "None")
         IN  IF passed = "True"
             THEN [line |-> <<"ok", "Behavioral probe", Get(pr, "message", "Passed.")>>,
                   weights |-> <<<<ProbeWeight, TRUE>>>>]
             ELSE IF passed = "False"
             THEN [line |-> <<"bad", "Behavioral probe", Get(pr, "message", "Failed.")>>,
                   weights |-> <<<<ProbeWeight, FALSE>>>>]
             ELSE [line |-> <<"warn", "Behavioral probe", Get(pr, "message", "Inconclusive.")>>,
                   weights |-> <<>>]
    ELSE [line |-> <<"none", "Behavioral probe", Get(pr, "reason", "Not applicable.")>>,
          weights |-> <<>>]

\* The verdict made to depend on the promise: a promise with a bug class
\* gets the probe weight as positive evidence.
ScorePromiseUsesPromise(p, cc, dc, pr) ==
    LET s1 == CveSignal(cc)
        s2 == DiffSignal(dc)
        s3 == ProbeSignal(pr)
        extra == IF Get(p, "bug_class", "None") # "None"
                 THEN <<<<ProbeWeight, TRUE>>>> ELSE <<>>
        v  == ComputeVerdict(s1.weights \o s2.weights \o s3.weights \o extra,
                             Get(cc, "fixed", "None"))
    IN  [status |-> v[1], confidence |-> v[2], signals |-> <<s1.line, s2.line, s3.line>>]

ScorePromise(p, cc, dc, pr) ==
    LET s1 == CveSignal(cc)
        s2 == DiffSignal(dc)
        s3 == ProbeSignal(pr)
        weights == s1.weights \o s2.weights \o s3.weights
        v  == ComputeVerdict(weights, Get(cc, "fixed", "None"))
    IN  [status |-> v[1], confidence |-> v[2], signals |-> <<s1.line, s2.line, s3.line>>]

(***************************************************************************)
(* Inputs of file_changed_for_promise and score_promise                    *)
(***************************************************************************)
Paths == { <<"A", "u", "t", "h", ".", "p", "y">>, <<"f", "i", "x", ".", "c">> }

Hashes == {"h1", "h2"}

\* The hash dicts _hash_dir can return for a release.
HashDicts == UNION { [S -> Hashes] : S \in SUBSET Paths }

\* diff_versions: a comparison, or one of its unavailable answers; run_scan's
\* own default when the ecosystem is not PyPI or npm.
DiffResults ==
    { CompareHashes(old, new) : old \in HashDicts, new \in HashDicts }
    \cup { [available |-> FALSE, reason |-> <<"Could not download one or both versions.">>],
           [available |-> FALSE, reason |-> <<"File diff requires PyPI or npm ecosystem.">>] }

Promises ==
    { \* "Fix Auth"
      [ description |-> <<"F", "i", "x", " ", "A", "u", "t", "h">>, bug_class |-> "None" ],
      \* "fix the io"
      [ description |-> <<"f", "i", "x", " ", "t", "h", "e", " ", "i", "o">>,
        bug_class   |-> "memory_leak" ],
      \* "2fa in auth"
      [ description |-> <<"2", "f", "a", " ", "i", "n", " ", "a", "u", "t", "h">>,
        bug_class   |-> "input_validation" ] }

\* What check_version_fixed returns.
CveChecks ==
    { [fixed |-> "True",  method |-> "version_range", detail |-> "New version is safe."],
      [fixed |-> "False", method |-> "version_range", detail |-> "New version is still vulnerable."],
      [fixed |-> "None",  method |-> "no_range_data", detail |-> "No clean version range data."] }

\* What run_scan passes as probe_result.
ProbeResults ==
    { [ran |-> FALSE, reason |-> "Not applicable."],
      [ran |-> TRUE, passed |-> "True",  message |-> "fix confirmed."],
      [ran |-> TRUE, passed |-> "False", message |-> "fix not effective."],
      [ran |-> TRUE, passed |-> "None",  message |-> "Probe results inconclusive."] }

(***************************************************************************)
(* SpecScore: run_scan's per-item sequence, file_changed_for_promise then  *)
(* score_promise, item after item.                                         *)
(***************************************************************************)
\* Items scored in one run of the loop.
MaxCalls == 2

InitScore ==
    /\ promise \in Promises
    /\ diff_result \in DiffResults
    /\ diff_check = Pending
    /\ cve_check = Pending
    /\ probe_result = Pending
    /\ verdict = Pending
    /\ last_call = Pending
    /\ calls = 0
    /\ pc = "file_changed_for_promise"
    /\ IdleBut({"score"})

CallFileChangedForPromise ==
    /\ pc = "file_changed_for_promise"
    /\ diff_check' = FileChangedForPromise(diff_result, promise)
    /\ pc' = "score_promise"
    /\ UNCHANGED <<promise, diff_result, cve_check, probe_result, verdict, last_call,
                   calls>>
    /\ UnchangedBut({"score"})

CallScorePromise ==
    /\ pc = "score_promise"
    /\ \E cc \in CveChecks, pr \in ProbeResults :
          /\ cve_check' = cc
          /\ probe_result' = pr
          /\ verdict' = ScorePromise(promise, cc, diff_check, pr)
    /\ calls' = calls + 1
    /\ pc' = "scored"
    /\ UNCHANGED <<promise, diff_result, diff_check, last_call>>
    /\ UnchangedBut({"score"})

\* The loop moves to the next item; the finished call is remembered.  The
\* diff of the two releases is made once, before the loop, and serves every
\* item.
NextItem ==
    /\ pc = "scored"
    /\ calls < MaxCalls
    /\ last_call' = [ promise |-> promise, cve_check |-> cve_check,
                      diff_check |-> diff_check, probe_result |-> probe_result,
                      verdict |-> verdict ]
    /\ promise' \in Promises
    /\ UNCHANGED diff_result
    /\ diff_check' = Pending
    /\ cve_check' = Pending
    /\ probe_result' = Pending
    /\ verdict' = Pending
    /\ pc' = "file_changed_for_promise"
    /\ UNCHANGED calls
    /\ UnchangedBut({"score"})

NextScore == CallFileChangedForPromise \/ CallScorePromise \/ NextItem

SpecScore == InitScore /\ [][NextScore]_vars

\* Both components, for completeness.
Init == InitVersion \/ InitScore
Next == NextVersion \/ NextScore
Spec == Init /\ [][Next]_vars

(***************************************************************************)
(* Properties of check_version_fixed (SpecVersion)                         *)
(***************************************************************************)
Returned == pc = "returned"

\* Component i of a release, missing components read as 0.
Component(r, i) == IF i <= Len(r) THEN r[i] ELSE 0

\* a >= b in semantic order: at the first component where they differ, a's
\* is the larger.
SemanticGe(a, b) ==
    LET n == IF Len(a) >= Len(b) THEN Len(a) ELSE Len(b)
    IN  \A i \in 1..n :
            (\A j \in 1..(i - 1) : Component(a, j) = Component(b, j))
                => Component(a, i) >= Component(b, i)

\* A bound is usable when it is set and it and new_version both parse.
Usable(bound) == Truthy(bound) /\ Version(bound).valid /\ Version(new_version).valid

NewGe(bound) == SemanticGe(Version(new_version).release, Version(bound).release)

\* C1: with a usable fixed_in, fixed is true exactly when new_version >=
\* fixed_in in semantic (numeric, component-wise) order; otherwise, with a
\* usable affected_below, fixed is false when new_version < affected_below and
\* true otherwise.  fixed_in decides whenever it is usable.
C1_RangeRule ==
    Returned =>
        /\ Usable(cve.fixed_in) =>
              range_check.fixed = (IF NewGe(cve.fixed_in) THEN "True" ELSE "False")
        /\ (~Usable(cve.fixed_in) /\ Usable(cve.affected_below)) =>
              range_check.fixed = (IF NewGe(cve.affected_below) THEN "True" ELSE "False")

\* 4.10.0 against fixed_in 4.9.0: numerically newer, lexically older.
C1_Witness ==
    /\ Returned
    /\ cve.fixed_in = <<"4", ".", "9", ".", "0">>
    /\ cve.affected_below = <<"4", ".", "1", "0", ".", "0">>
    /\ new_version = <<"4", ".", "1", "0", ".", "0">>
    /\ range_check.fixed = "True"

\* C2: check_version_fixed does not raise, and when no bound is usable (absent,
\* or not comparable because a string is malformed) it returns fixed=null
\* with method no_range_data.
C2_MalformedIsUnknown ==
    Returned =>
        /\ ~range_check.raised
        /\ (~Usable(cve.fixed_in) /\ ~Usable(cve.affected_below)) =>
              (range_check.fixed = "None" /\ range_check.method = "no_range_data")

\* A malformed fixed_in and no affected_below.
C2_Witness ==
    /\ Returned
    /\ cve.fixed_in = <<"1", ".", "x">>
    /\ cve.affected_below = None
    /\ Version(new_version).valid
    /\ range_check.fixed = "None"

(***************************************************************************)
(* Properties of score_promise (SpecScore)                                 *)
(***************************************************************************)
Scored == pc = "scored"

CveFixed == Get(cve_check, "fixed", "None")

DiffChecked == Get(diff_check, "checked", FALSE)

DiffPolarity == Get(diff_check, "files_changed", "None")

ProbeRan == Get(probe_result, "ran", FALSE)

ProbePassed == Get(probe_result, "passed", "None")

\* The weight table of the specification.
CvePositive   == IF CveFixed = "True" THEN 40 ELSE 0
CveNegative   == IF CveFixed = "False" THEN 40 ELSE 0
DiffPositive  == IF ~DiffChecked THEN 0
                 ELSE IF DiffPolarity = "True" THEN 35
                 ELSE IF DiffPolarity = "None" THEN 15 ELSE 0
DiffNegative  == IF DiffChecked /\ DiffPolarity = "False" THEN 35 ELSE 0
ProbePositive == IF ProbeRan /\ ProbePassed = "True" THEN 25 ELSE 0
ProbeNegative == IF ProbeRan /\ ProbePassed = "False" THEN 25 ELSE 0

PositiveWeight == CvePositive + DiffPositive + ProbePositive
TotalWeight    == PositiveWeight + CveNegative + DiffNegative + ProbeNegative

\* floor(base + scale * num / den)
Floor(base, scale, num, den) ==
    CHOOSE k \in 0..200 : k * den <= base * den + scale * num
                          /\ base * den + scale * num < (k + 1) * den

\* C3: when no signal carries weight (range fixed=null, diff not checked,
\* probe not run or inconclusive) the verdict is UNCONFIRMED with confidence
\* 30, whatever the promise.
C3_NoEvidenceFloor ==
    (Scored /\ CveFixed = "None" /\ ~DiffChecked /\ (~ProbeRan \/ ProbePassed = "None"))
        => (verdict.status = "UNCONFIRMED" /\ verdict.confidence = 30)

\* An inconclusive probe that ran, for a promise with a bug class.
C3_Witness ==
    /\ Scored /\ CveFixed = "None" /\ ~DiffChecked
    /\ ProbeRan /\ ProbePassed = "None"
    /\ promise.bug_class # "None"
    /\ verdict.confidence = 30

\* C4: two calls with the same three signals return the same status,
\* confidence and signals, whatever the promises and whatever ran before.
C4_Deterministic ==
    (Scored /\ last_call # Pending
        /\ last_call.cve_check = cve_check
        /\ last_call.diff_check = diff_check
        /\ last_call.probe_result = probe_result)
        => last_call.verdict = verdict

\* The same signals scored for two different promises.
C4_Witness ==
    /\ Scored /\ last_call # Pending
    /\ last_call.cve_check = cve_check
    /\ last_call.diff_check = diff_check
    /\ last_call.probe_result = probe_result
    /\ last_call.promise.bug_class # promise.bug_class
    /\ last_call.promise.description # promise.description
    /\ TotalWeight > 0

\* C5: every verdict has an integer confidence in [0,100] and a status among
\* FIXED, NOT_FIXED, UNCONFIRMED.
C5_VerdictRange ==
    Scored =>
        /\ verdict.confidence \in 0..100
        /\ verdict.status \in {"FIXED", "NOT_FIXED", "UNCONFIRMED"}

\* The largest confidence of the override: everything negative.
C5_Witness ==
    /\ Scored /\ CveFixed = "False"
    /\ DiffNegative = 35 /\ ProbeNegative = 25
    /\ verdict.confidence = 95

\* C6: an explicitly negative range signal forces NOT_FIXED whatever the
\* other two signals are.
C6_NegativeRangeOverrides ==
    (Scored /\ CveFixed = "False") => verdict.status = "NOT_FIXED"

\* Negative range against a relevant file change and a confirming probe.
C6_Witness ==
    /\ Scored /\ CveFixed = "False"
    /\ DiffPositive = 35 /\ ProbePositive = 25
    /\ verdict.status = "NOT_FIXED"

\* C7 as stated: under a negative range signal the confidence is
\* min(95, int(60 + (1-ratio)*35)) when ratio < 0.4 and 65 otherwise.
C7_Original ==
    (Scored /\ CveFixed = "False") =>
        verdict.confidence =
            (IF 5 * PositiveWeight < 2 * TotalWeight
             THEN Min(95, Floor(60, 35, TotalWeight - PositiveWeight, TotalWeight))
             ELSE 65)

\* C7 amended: under a negative range signal the confidence is
\* int(70 + (1-ratio)*25) when ratio < 0.4 and 65 otherwise.
C7_OverrideConfidence ==
    (Scored /\ CveFixed = "False") =>
        verdict.confidence =
            (IF 5 * PositiveWeight < 2 * TotalWeight
             THEN Floor(70, 25, TotalWeight - PositiveWeight, TotalWeight)
             ELSE 65)

\* Negative range with a confirming probe only: ratio = 25/65.
C7_Witness ==
    /\ Scored /\ CveFixed = "False"
    /\ ~DiffChecked /\ ProbePositive = 25
    /\ verdict.confidence = 85

\* C8 as stated: a negative range signal alone gives NOT_FIXED with 65.
C8_Original ==
    (Scored /\ CveFixed = "False" /\ ~DiffChecked /\ ~ProbeRan)
        => (verdict.status = "NOT_FIXED" /\ verdict.confidence = 65)

\* C8 amended: a negative range signal alone gives NOT_FIXED with 95.
C8_NegativeRangeAlone ==
    (Scored /\ CveFixed = "False" /\ ~DiffChecked /\ ~ProbeRan)
        => (verdict.status = "NOT_FIXED" /\ verdict.confidence = 95)

C8_Witness ==
    /\ Scored /\ CveFixed = "False" /\ ~DiffChecked /\ ~ProbeRan
    /\ verdict.status = "NOT_FIXED"
    /\ diff_result.reason = <<"Could not download one or both versions.">>

\* C9: with some weight and a range signal that is not negative, the bands of
\* ratio = positive/total decide: >= 0.75 FIXED min(97, 70+ratio*28);
\* >= 0.5 FIXED min(75, 50+ratio*30); >= 0.25 UNCONFIRMED 30+ratio*30;
\* below NOT_FIXED min(95, 60+(1-ratio)*35); each truncated.  All three
\* signals positive give FIXED 97.
C9_RatioBands ==
    (Scored /\ TotalWeight > 0 /\ CveFixed # "False") =>
        LET p == PositiveWeight
            t == TotalWeight
        IN  /\ 4 * p >= 3 * t =>
                 /\ verdict.status = "FIXED"
                 /\ verdict.confidence = Min(97, Floor(70, 28, p, t))
            /\ (2 * p >= t /\ 4 * p < 3 * t) =>
                 /\ verdict.status = "FIXED"
                 /\ verdict.confidence = Min(75, Floor(50, 30, p, t))
            /\ (4 * p >= t /\ 2 * p < t) =>
                 /\ verdict.status = "UNCONFIRMED"
                 /\ verdict.confidence = Floor(30, 30, p, t)
            /\ 4 * p < t =>
                 /\ verdict.status = "NOT_FIXED"
                 /\ verdict.confidence = Min(95, Floor(60, 35, t - p, t))
            /\ (p = 100 /\ t = 100) =>
                 (verdict.status = "FIXED" /\ verdict.confidence = 97)

\* Scenario A: all three signals positive.
C9_Witness ==
    /\ Scored
    /\ CvePositive = 40 /\ DiffPositive = 35 /\ ProbePositive = 25
    /\ verdict.status = "FIXED" /\ verdict.confidence = 97

\* C10: for an unavailable diff, file_changed_for_promise answers checked=false
\* with a reason and no files_changed, and the verdict is the one the range
\* and probe signals give by themselves.
C10_UnavailableDiffSuppressed ==
    (Scored /\ ~diff_result.available) =>
        /\ diff_check.checked = FALSE
        /\ "reason" \in DOMAIN diff_check
        /\ "files_changed" \notin DOMAIN diff_check
        /\ LET p == CvePositive + ProbePositive
               t == p + CveNegative + ProbeNegative
           IN  IF t = 0
               THEN verdict.status = "UNCONFIRMED" /\ verdict.confidence = 30
               ELSE IF CveFixed = "False"
               THEN /\ verdict.status = "NOT_FIXED"
                    /\ verdict.confidence =
                          (IF 5 * p < 2 * t THEN Floor(70, 25, t - p, t) ELSE 65)
               ELSE IF 4 * p >= 3 * t
               THEN /\ verdict.status = "FIXED"
                    /\ verdict.confidence = Min(97, Floor(70, 28, p, t))
               ELSE IF 2 * p >= t
               THEN /\ verdict.status = "FIXED"
                    /\ verdict.confidence = Min(75, Floor(50, 30, p, t))
               ELSE IF 4 * p >= t
               THEN /\ verdict.status = "UNCONFIRMED"
                    /\ verdict.confidence = Floor(30, 30, p, t)
               ELSE /\ verdict.status = "NOT_FIXED"
                    /\ verdict.confidence = Min(95, Floor(60, 35, t - p, t))

\* Unavailable diff beside a positive range signal: FIXED 97 from the range
\* signal alone, where a "no files changed" signal would have given 66.
C10_Witness ==
    /\ Scored /\ ~diff_result.available
    /\ CveFixed = "True" /\ ~ProbeRan
    /\ verdict.status = "FIXED" /\ verdict.confidence = 97

(***************************************************************************)
(* SpecDiff: file_changed_for_promise on its own, over diffs of up to      *)
(* three files.                                                            *)
(***************************************************************************)
DiffPaths == Paths \cup { <<"2", "f", "a", ".", "j", "s">> }

DiffHashDicts == UNION { [S -> Hashes] : S \in SUBSET DiffPaths }

DiffInputs ==
    { CompareHashes(old, new) : old \in DiffHashDicts, new \in DiffHashDicts }
    \cup { [available |-> FALSE, reason |-> <<"Could not download one or both versions.">>] }

InitDiff ==
    /\ promise \in Promises
    /\ diff_result \in DiffInputs
    /\ diff_check = Pending
    /\ cve_check = Pending /\ probe_result = Pending /\ verdict = Pending
    /\ last_call = Pending
    /\ calls = 0
    /\ pc = "file_changed_for_promise"
    /\ IdleBut({"score"})

DiffFileChangedForPromise ==
    /\ pc = "file_changed_for_promise"
    /\ diff_check' = FileChangedForPromise(diff_result, promise)
    /\ pc' = "diffed"
    /\ UNCHANGED <<promise, diff_result, cve_check, probe_result, verdict, last_call,
                   calls>>
    /\ UnchangedBut({"score"})

NextDiff == DiffFileChangedForPromise

SpecDiff == InitDiff /\ [][NextDiff]_vars

(***************************************************************************)
(* C11                                                                     *)
(***************************************************************************)
Diffed == pc = "diffed" /\ diff_result.available

\* The words of a description: the maximal runs of letters, digits and
\* underscores of its lower-cased text.
Words(desc) ==
    LET d == Lower(desc)
        IsRun(i, j) ==
            /\ i <= j
            /\ \A k \in i..j : IsWordChar(d[k])
            /\ (i = 1 \/ ~IsWordChar(d[i - 1]))
            /\ (j = Len(d) \/ ~IsWordChar(d[j + 1]))
    IN  { SubSeq(d, r[1], r[2]) :
            r \in { q \in (1..Len(d)) \X (1..Len(d)) : IsRun(q[1], q[2]) } }

\* Candidate tokens as the claim words them.
TokensAnyStart(desc) == { w \in Words(desc) : Len(w) >= 3 /\ w \notin StopWords }

\* Candidate tokens that begin with a letter.
TokensLetterStart(desc) == { w \in TokensAnyStart(desc) : IsLowerLetter(w[1]) }

PathHasToken(cf, tokens) == \E w \in tokens : Contains(w, Lower(cf))

ChangedPaths == { diff_result.changed[i] : i \in DOMAIN diff_result.changed }

\* The three outcomes, for a given notion of candidate token.
ThreeOutcomes(tokens) ==
    LET Rel(cf) == PathHasToken(cf, tokens)
    IN  /\ diff_check.checked
        /\ diff_check.files_changed \in {"True", "None", "False"}
        /\ diff_check.files_changed = "True" <=> \E cf \in ChangedPaths : Rel(cf)
        /\ diff_check.files_changed = "True" =>
             diff_check.relevant_changes = Take(SelectSeq(diff_result.changed, Rel), 5)
        /\ diff_check.files_changed = "None" <=>
             (ChangedPaths # {} /\ ~\E cf \in ChangedPaths : Rel(cf))
        /\ diff_check.files_changed = "False" <=> ChangedPaths = {}

\* C11 as stated: the candidate tokens are the words of the description of
\* length >= 3 that are not stopwords, and the outcome of an available diff is
\* true iff some changed path contains one, null iff files changed and none
\* does, false iff nothing changed.
C11_Original == Diffed => ThreeOutcomes(TokensAnyStart(promise.description))

\* C11 amended: the candidate tokens are the words of length >= 3 that begin
\* with a letter and are not stopwords; with these the outcome of an available
\* diff is true (with the relevant changed paths, in order, at most five) iff
\* some changed path contains a token, null iff files changed and none does,
\* false iff nothing changed.
C11_ThreeOutcomes == Diffed => ThreeOutcomes(TokensLetterStart(promise.description))

\* "Fix Auth" against a diff that changed both Auth.py and fix.c: only Auth.py
\* is relevant, fix.c matches nothing but the stopword.
C11_Witness ==
    /\ Diffed
    /\ diff_check.files_changed = "True"
    /\ \E i \in DOMAIN diff_result.changed :
         /\ Contains(<<"f", "i", "x">>, Lower(diff_result.changed[i]))
         /\ \A k \in DOMAIN diff_check.relevant_changes :
              diff_check.relevant_changes[k] # diff_result.changed[i]

(***************************************************************************)
(* scorer.compute_risk_score                                               *)
(* exposed_weight is a float that only ever holds multiples of 0.5; it is  *)
(* kept as the integer number of halves.  The score has one decimal and is *)
(* kept in tenths.                                                         *)
(***************************************************************************)
SEVERITY_WEIGHTS == [ CRITICAL |-> 10, HIGH |-> 7, MEDIUM |-> 4, LOW |-> 1, UNKNOWN |-> 3 ]

\* w = SEVERITY_WEIGHTS.get(cve.get("severity", "UNKNOWN"), 3)
SeverityWeight(c) == Get(SEVERITY_WEIGHTS, Get(c, "severity", "UNKNOWN"), 3)

\* The multiplier 1.0 / 0.5 / none, in halves.
MultiplierHalves(v) ==
    IF v.status \in {"NOT_FIXED", "UNCONFIRMED"}
    THEN (IF v.status = "NOT_FIXED" THEN 2 ELSE 1)
    ELSE 0

\* num/den rounded to the nearest integer, ties to the even one.
RoundHalfEven(num, den) ==
    LET q == num \div den
        r == num % den
    IN  IF 2 * r < den THEN q
        ELSE IF 2 * r > den THEN q + 1
        ELSE IF q % 2 = 0 THEN q ELSE q + 1

\* (exposed_weight / total_weight) * 100 is evaluated in binary floating
\* point.  Where the exact value lies halfway between two tenths the double
\* can fall just off the tie; these are all the <<halves, total>> pairs with
\* total <= 100 whose double rounds away from the even tenth.
FloatBelowTie == { <<23, 40>>, <<51, 40>>, <<46, 80>>, <<102, 80>> }

FloatAboveTie == { <<49, 40>>, <<98, 80>> }

\* round((exposed_weight / total_weight) * 100, 1), in tenths.
RoundedScore(halves, total) ==
    LET exact == RoundHalfEven(500 * halves, total)
    IN  IF <<halves, total>> \in FloatBelowTie THEN exact - 1
        ELSE IF <<halves, total>> \in FloatAboveTie THEN exact + 1
        ELSE exact

RiskLabel(score) ==
    IF score >= 700 THEN "CRITICAL"
    ELSE IF score >= 450 THEN "HIGH"
    ELSE IF score >= 200 THEN "MEDIUM"
    ELSE IF score > 0 THEN "LOW"
    ELSE "NONE"

ComputeRiskScore(n, halves, total) ==
    IF n = 0
    THEN [score |-> 0, label |-> "NONE"]
    ELSE LET score == IF total # 0 THEN RoundedScore(halves, total) ELSE 0
         IN  [score |-> score, label |-> RiskLabel(score)]

(***************************************************************************)
(* SpecRisk: compute_risk_score, one loop iteration per step.              *)
(***************************************************************************)
\* Longest verdict list.
MaxVerdicts == 5

VerdictStatuses == {"FIXED", "NOT_FIXED", "UNCONFIRMED"}

\* The cve dicts zipped with the verdicts: a known severity, one outside the
\* table, or none.
RiskCves ==
    { [severity |-> sev] : sev \in DOMAIN SEVERITY_WEIGHTS \cup {"NONE"} }
    \cup { [id |-> "bug"] }

InitRisk ==
    /\ zipped = 0 /\ risk_total = 0 /\ risk_exposed = 0
    /\ risk = Pending
    /\ pc = "compute_risk_score"
    /\ IdleBut({"risk"})

\* One iteration of `for v, cve in zip(verdicts, cves)`.
RiskLoop ==
    /\ pc = "compute_risk_score"
    /\ zipped < MaxVerdicts
    /\ \E v \in [status : VerdictStatuses], c \in RiskCves :
         LET w == SeverityWeight(c)
         IN  /\ risk_total' = risk_total + w
             /\ risk_exposed' = risk_exposed + w * MultiplierHalves(v)
    /\ zipped' = zipped + 1
    /\ UNCHANGED <<risk, pc>>
    /\ UnchangedBut({"risk"})

\* The list is exhausted (or was empty): score, label, return.
RiskReturn ==
    /\ pc = "compute_risk_score"
    /\ risk' = ComputeRiskScore(zipped, risk_exposed, risk_total)
    /\ pc' = "risk_returned"
    /\ UNCHANGED <<zipped, risk_total, risk_exposed>>
    /\ UnchangedBut({"risk"})

NextRisk == RiskLoop \/ RiskReturn

SpecRisk == InitRisk /\ [][NextRisk]_vars

(***************************************************************************)
(* C12                                                                     *)
(***************************************************************************)
RiskReturned == pc = "risk_returned"

\* 100 * exposed / total to one decimal, by either reading of a tie.
NearestTenths(halves, total) ==
    LET q == (500 * halves) \div total
        r == (500 * halves) % total
    IN  IF 2 * r < total THEN {q}
        ELSE IF 2 * r > total THEN {q + 1}
        ELSE {RoundHalfEven(500 * halves, total), q + 1}

\* C12 as stated: the returned score is 100 * exposed_weight / total_weight
\* rounded to one decimal (0 with label NONE for no verdicts), the label
\* follows the thresholds 70 / 45 / 20 / > 0, and the score lies in [0,100].
C12_Stated ==
    RiskReturned =>
        /\ zipped = 0 => risk.score = 0 /\ risk.label = "NONE"
        /\ zipped > 0 => risk.score \in NearestTenths(risk_exposed, risk_total)
        /\ risk.label = RiskLabel(risk.score)
        /\ risk.score \in 0..1000

(***************************************************************************)
(* prober: the probe catalog and _interpret_probe_output                   *)
(* The stdout of a probe script is <<head, rest>>: head is the text up to  *)
(* and including the first colon (the whole text when there is none), rest *)
(* the characters after it.                                                *)
(***************************************************************************)
\* The keys of PROBES; every entry has both python_code and node_code.
PROBES ==
    {"buffer_overflow", "memory_leak", "input_validation", "integer_overflow",
     "denial_of_service"}

\* output == text
OutputIs(output, text) == output = <<text, <<>>>>

\* output.startswith(prefix), for a prefix that ends with its colon.
StartsWith(output, prefix) == output[1] = prefix

\* int(size) succeeds on a string of decimal digits and raises ValueError on
\* the other strings considered here.
IntParses(size) == size # <<>> /\ \A i \in DOMAIN size : IsDigit(size[i])

Failed(result, message) ==
    [ran |-> TRUE, result |-> result, message |-> message, passed |-> "False"]

Passed(result, message) ==
    [ran |-> TRUE, result |-> result, message |-> message, passed |-> "True"]

\* The answer for an output that matches nothing.
UnknownOutput == [ran |-> TRUE, result |-> "UNKNOWN", message |-> "Probe output", passed |-> "None"]

\* A returned dict, or the exception the function lets escape.
Raised(exception) == [raised |-> exception]

InterpretProbeOutput(output, bug_class) ==
    IF OutputIs(output, "IMPORT_ERROR")
    THEN [ran |-> FALSE, reason |-> "Package could not be imported"]
    ELSE IF bug_class = "buffer_overflow" THEN
        IF StartsWith(output, "CRASH:") THEN Failed("CRASH", "Crashed on oversized input")
        ELSE IF OutputIs(output, "HANDLED")
             THEN Passed("HANDLED", "Handled oversized input gracefully.")
             ELSE UnknownOutput
    ELSE IF bug_class = "memory_leak" THEN
        IF StartsWith(output, "LEAK:")
        THEN (IF IntParses(output[2])
              THEN Failed("LEAK", "Memory grew - possible leak.")
              ELSE Raised("ValueError"))
        ELSE IF StartsWith(output, "STABLE:")
             THEN Passed("STABLE", "Memory remained stable across 500 iterations.")
             ELSE UnknownOutput
    ELSE IF bug_class = "input_validation" THEN
        IF StartsWith(output, "UNHANDLED:") THEN Failed("UNHANDLED", "Unhandled malicious input")
        ELSE IF OutputIs(output, "VALIDATED")
             THEN Passed("VALIDATED", "Malicious inputs handled correctly.")
             ELSE UnknownOutput
    ELSE IF bug_class = "integer_overflow" THEN
        IF StartsWith(output, "OVERFLOW:") THEN Failed("OVERFLOW", "Integer overflow detected")
        ELSE IF OutputIs(output, "HANDLED")
             THEN Passed("HANDLED", "Boundary integers handled correctly.")
             ELSE UnknownOutput
    ELSE IF bug_class = "denial_of_service" THEN
        IF StartsWith(output, "ISSUE:") THEN Failed("ISSUE", "DoS-like behavior detected")
        ELSE IF OutputIs(output, "HANDLED")
             THEN Passed("HANDLED", "Large inputs handled without hanging.")
             ELSE UnknownOutput
    ELSE UnknownOutput

(***************************************************************************)
(* prober.run_probe, _run_python_probe, _run_node_probe                    *)
(***************************************************************************)
\* run_probe without the ecosystem dispatch: every ecosystem is probed.
SupportedAnyEcosystem(bug_class, eco) == bug_class \in PROBES

\* run_probe goes on to a sandboxed probe.
Supported(bug_class, eco) == bug_class \in PROBES /\ eco \in {"PyPI", "npm"}

\* The early returns of run_probe.
RejectReason(bug_class, eco) ==
    IF bug_class \notin PROBES
    THEN [ran |-> FALSE, reason |-> "No probe defined for bug class."]
    ELSE [ran |-> FALSE, reason |-> "Behavioral probing not supported for ecosystem."]

\* shutil.which("node") / shutil.which("npm") found nothing.
NodeMissing == [ran |-> FALSE, reason |-> "node/npm not found in PATH"]

\* subprocess.run of the installer: it exits with 0, exits with another
\* code, exceeds timeout=120, or cannot be started.
InstallOutcomes == {"returncode_0", "returncode_1", "TimeoutExpired", "OSError"}

InstallFailed == [ran |-> FALSE, reason |-> "Could not install the package for probing."]

\* What the probe process can print.
Outputs ==
    { <<"IMPORT_ERROR", <<>>>>, <<"HANDLED", <<>>>>, <<"VALIDATED", <<>>>>,
      <<"CRASH:", <<"f">>>>, <<"LEAK:", <<"1", "2">>>>, <<"LEAK:", <<"x">>>>,
      <<"STABLE:", <<"0">>>>, <<"UNHANDLED:", <<"f">>>>, <<"OVERFLOW:", <<"f">>>>,
      <<"ISSUE:", <<"f">>>>, <<"", <<>>>> }

\* subprocess.run of the probe script: it prints something and exits, exceeds
\* timeout=30, or cannot be started.
ExecOutcomes == { [output |-> o] : o \in Outputs } \cup { Raised("TimeoutExpired"), Raised("OSError") }

ProbeTimeout ==
    [ran |-> TRUE, result |-> "TIMEOUT", message |-> "Probe timed out (>30s)", passed |-> "False"]

ProbeExecutionError == [ran |-> FALSE, reason |-> "Probe execution error"]

\* The try block around the probe process.
ExecResult(outcome, bug_class) ==
    IF outcome = Raised("TimeoutExpired") THEN ProbeTimeout
    ELSE IF outcome = Raised("OSError") THEN ProbeExecutionError
    ELSE LET interpreted == InterpretProbeOutput(outcome.output, bug_class)
         IN  IF "raised" \in DOMAIN interpreted THEN ProbeExecutionError ELSE interpreted

\* A sandbox removed by hand before each return, and so not when an
\* exception leaves the block.
ReleaseOnReturnOnly(dirs, owned, exit) == IF exit = "raise" THEN dirs ELSE dirs \ owned

\* Leaving `with tempfile.TemporaryDirectory()`: the directory is removed
\* whether the block is left by a return or by an exception.
Release(dirs, owned, exit) == dirs \ owned

(***************************************************************************)
(* SpecProbe: run_probe invoked by two processes of the program at the     *)
(* same time, each several times in a row.                                 *)
(***************************************************************************)
Procs == {1, 2}

\* Invocations per process.
MaxProbeCalls == 2

\* Names tempfile can give a directory.
DirNames == {"tmpA", "tmpB"}

NoDir == "none"

ProbeArgs == [bug_class : PROBES \cup {"race_condition"}, ecosystem : {"PyPI", "npm", "Go"}]

InitProbe ==
    /\ probe_args \in [Procs -> ProbeArgs]
    /\ probe_pc = [p \in Procs |-> "run_probe"]
    /\ tmpdir = [p \in Procs |-> NoDir]
    /\ tmpdirs = {}
    /\ probe_log = [p \in Procs |-> <<>>]
    /\ probe_ret = [p \in Procs |-> Pending]
    /\ probe_calls = [p \in Procs |-> 1]
    /\ pc = "probing"
    /\ IdleBut({"probe"})

\* The sandbox of process p's current invocation.
Owned(p) == { t \in tmpdirs : t.owner = p }

ProbeReturn(p, result) ==
    /\ probe_ret' = [probe_ret EXCEPT ![p] = result]
    /\ probe_pc' = [probe_pc EXCEPT ![p] = "returned"]
    /\ tmpdirs' = Release(tmpdirs, Owned(p), "return")
    /\ tmpdir' = [tmpdir EXCEPT ![p] = NoDir]

ProbeRaise(p, exception) ==
    /\ probe_ret' = [probe_ret EXCEPT ![p] = Raised(exception)]
    /\ probe_pc' = [probe_pc EXCEPT ![p] = "raised"]
    /\ tmpdirs' = Release(tmpdirs, Owned(p), "raise")
    /\ tmpdir' = [tmpdir EXCEPT ![p] = NoDir]

\* run_probe: no catalog entry, or an ecosystem other than PyPI and npm.
RunProbeReject(p) ==
    /\ probe_pc[p] = "run_probe"
    /\ ~Supported(probe_args[p].bug_class, probe_args[p].ecosystem)
    /\ ProbeReturn(p, RejectReason(probe_args[p].bug_class, probe_args[p].ecosystem))
    /\ UNCHANGED <<probe_args, probe_log, probe_calls, pc>>
    /\ UnchangedBut({"probe"})

\* _run_node_probe: node or npm is not on the PATH.
NodeProbeUnavailable(p) ==
    /\ probe_pc[p] = "run_probe"
    /\ Supported(probe_args[p].bug_class, probe_args[p].ecosystem)
    /\ probe_args[p].ecosystem = "npm"
    /\ ProbeReturn(p, NodeMissing)
    /\ UNCHANGED <<probe_args, probe_log, probe_calls, pc>>
    /\ UnchangedBut({"probe"})

\* Entering the with block: a directory under a name not in use, then the
\* probe script is written into it.
ProbeAcquire(p) ==
    /\ probe_pc[p] = "run_probe"
    /\ Supported(probe_args[p].bug_class, probe_args[p].ecosystem)
    /\ \E d \in DirNames \ { t.name : t \in tmpdirs } :
         /\ tmpdirs' = tmpdirs \cup { [name |-> d, owner |-> p] }
         /\ tmpdir' = [tmpdir EXCEPT ![p] = d]
    /\ probe_log' = [probe_log EXCEPT ![p] = <<"mkdtemp", "write_script">>]
    /\ probe_pc' = [probe_pc EXCEPT ![p] = "install"]
    /\ UNCHANGED <<probe_args, probe_ret, probe_calls, pc>>
    /\ UnchangedBut({"probe"})

\* subprocess.run(pip install / npm install, timeout=120), outside any try.
ProbeInstall(p) ==
    /\ probe_pc[p] = "install"
    /\ probe_log' = [probe_log EXCEPT ![p] = Append(@, "install")]
    /\ \E outcome \in InstallOutcomes :
         IF outcome = "returncode_0"
         THEN /\ probe_pc' = [probe_pc EXCEPT ![p] = "exec"]
              /\ UNCHANGED <<tmpdir, tmpdirs, probe_ret>>
         ELSE IF outcome = "returncode_1"
         THEN ProbeReturn(p, InstallFailed)
         ELSE ProbeRaise(p, outcome)
    /\ UNCHANGED <<probe_args, probe_calls, pc>>
    /\ UnchangedBut({"probe"})

\* subprocess.run(probe script, timeout=30) inside the try, and the return.
ProbeExec(p) ==
    /\ probe_pc[p] = "exec"
    /\ probe_log' = [probe_log EXCEPT ![p] = Append(@, "exec")]
    /\ \E outcome \in ExecOutcomes :
         ProbeReturn(p, ExecResult(outcome, probe_args[p].bug_class))
    /\ UNCHANGED <<probe_args, probe_calls, pc>>
    /\ UnchangedBut({"probe"})

\* The process calls run_probe again.
ProbeAgain(p) ==
    /\ probe_pc[p] \in {"returned", "raised"}
    /\ probe_calls[p] < MaxProbeCalls
    /\ probe_calls' = [probe_calls EXCEPT ![p] = @ + 1]
    /\ \E a \in ProbeArgs : probe_args' = [probe_args EXCEPT ![p] = a]
    /\ probe_pc' = [probe_pc EXCEPT ![p] = "run_probe"]
    /\ probe_log' = [probe_log EXCEPT ![p] = <<>>]
    /\ probe_ret' = [probe_ret EXCEPT ![p] = Pending]
    /\ UNCHANGED <<tmpdir, tmpdirs, pc>>
    /\ UnchangedBut({"probe"})

NextProbe ==
    \E p \in Procs :
        \/ RunProbeReject(p)
        \/ NodeProbeUnavailable(p)
        \/ ProbeAcquire(p)
        \/ ProbeInstall(p)
        \/ ProbeExec(p)
        \/ ProbeAgain(p)

SpecProbe == InitProbe /\ [][NextProbe]_vars

(***************************************************************************)
(* C13, C20                                                                *)
(***************************************************************************)
Unsupported(p) ==
    \/ probe_args[p].bug_class \notin PROBES
    \/ probe_args[p].ecosystem \notin {"PyPI", "npm"}

\* C13: an invocation of run_probe with a bug class outside the catalog or an
\* ecosystem other than PyPI and npm goes from its call straight to its
\* return; it returns ran=false with a reason, and it never creates a sandbox
\* directory, attempts an install or executes a probe script.
C13_RejectedImmediately ==
    \A p \in Procs :
        Unsupported(p) =>
            /\ probe_pc[p] \in {"run_probe", "returned"}
            /\ probe_log[p] = <<>>
            /\ tmpdir[p] = NoDir
            /\ probe_pc[p] = "returned" =>
                 /\ probe_ret[p].ran = FALSE
                 /\ "reason" \in DOMAIN probe_ret[p]

\* A catalogued class probed for an ecosystem that is neither PyPI nor npm,
\* and a class outside the catalog probed for PyPI, both returned.
C13_Witness ==
    /\ probe_pc[1] = "returned" /\ probe_pc[2] = "returned"
    /\ probe_args[1].bug_class \in PROBES /\ probe_args[1].ecosystem = "Go"
    /\ probe_args[2].bug_class \notin PROBES /\ probe_args[2].ecosystem = "PyPI"
    /\ probe_ret[1].ran = FALSE /\ probe_ret[2].ran = FALSE

\* C20: an invocation that is between acquiring its sandbox and leaving
\* run_probe owns exactly one existing directory, the one it created; once it
\* has returned or raised (and before it has acquired one) it owns none; and
\* no directory name is in use by two invocations at once.
C20_SandboxReleased ==
    /\ \A p \in Procs :
         /\ probe_pc[p] \in {"run_probe", "returned", "raised"} => Owned(p) = {}
         /\ probe_pc[p] \in {"install", "exec"} =>
              Owned(p) = { [name |-> tmpdir[p], owner |-> p] }
    /\ \A t \in tmpdirs, u \in tmpdirs : t.name = u.name => t = u

\* One process has left run_probe by the installer's TimeoutExpired and owns
\* nothing, while the other is in the middle of its own probe run.
C20_Witness ==
    /\ probe_pc[1] = "raised" /\ probe_ret[1] = Raised("TimeoutExpired")
    /\ probe_log[1] = <<"mkdtemp", "write_script", "install">>
    /\ Owned(1) = {}
    /\ probe_pc[2] = "exec" /\ Owned(2) # {}

(***************************************************************************)
(* scanner.run_scan                                                        *)
(***************************************************************************)
\* Everything one call of run_probe can come back with: a returned dict, or
\* the exception that leaves it.
RunProbeOutcomes(bug_class, eco) ==
    IF ~Supported(bug_class, eco)
    THEN { RejectReason(bug_class, eco) }
    ELSE (IF eco = "npm" THEN {NodeMissing} ELSE {})
         \cup { InstallFailed, Raised("TimeoutExpired"), Raised("OSError") }
         \cup { ExecResult(outcome, bug_class) : outcome \in ExecOutcomes }

IsRaised(outcome) == "raised" \in DOMAIN outcome

NotApplicable == [ran |-> FALSE, reason |-> "Not applicable."]

\* The probe_result run_scan builds from the two probe runs.
CombineProbes(new, old) ==
    IF Get(new, "ran", FALSE) /\ Get(old, "ran", FALSE)
    THEN LET old_passed == Get(old, "passed", "None")
             new_passed == Get(new, "passed", "None")
         IN  IF old_passed = "False" /\ new_passed = "True"
             THEN [ran |-> TRUE, passed |-> "True", message |-> "fix confirmed."]
             ELSE IF new_passed = "False"
             THEN [ran |-> TRUE, passed |-> "False", message |-> "fix not effective."]
             ELSE [ran |-> TRUE, passed |-> "None", message |-> "Probe results inconclusive."]
    ELSE IF Get(new, "ran", FALSE) THEN new ELSE old

\* if not skip_probe and ecosystem == "PyPI" and bug_class
Probing(item) ==
    ~skip_probe /\ ecosystem = "PyPI" /\ Get(item, "bug_class", "None") # "None"

\* is_cve and item.get("source") != "release_notes_only"
HasRangeCheck(item) ==
    "severity" \in DOMAIN item /\ Get(item, "source", "None") # "release_notes_only"

NoRangeCheck == [fixed |-> "None", method |-> "none", detail |-> "No version range data available."]

\* verdicts.append({**item, **verdict}), with the keys used afterwards.
VerdictEntry(item, v) == [id |-> item.id, status |-> v.status, confidence |-> v.confidence]

RECURSIVE RiskTotal(_, _)
\* total_weight after the first n items.
RiskTotal(items, n) ==
    IF n = 0 THEN 0 ELSE RiskTotal(items, n - 1) + SeverityWeight(items[n])

RECURSIVE RiskExposed(_, _, _)
\* exposed_weight, in halves, after the first n (verdict, item) pairs.
RiskExposed(vs, items, n) ==
    IF n = 0 THEN 0
    ELSE RiskExposed(vs, items, n - 1) + SeverityWeight(items[n]) * MultiplierHalves(vs[n])

Count(vs, status) == Cardinality({ i \in DOMAIN vs : vs[i].status = status })

\* The record _save_scan builds and returns.
SaveScan(vs, risk_score, risk_label) ==
    [ total       |-> Len(vs),
      fixed       |-> Count(vs, "FIXED"),
      not_fixed   |-> Count(vs, "NOT_FIXED"),
      unconfirmed |-> Count(vs, "UNCONFIRMED"),
      risk_score  |-> risk_score,
      risk_label  |-> risk_label,
      verdicts    |-> vs ]

(***************************************************************************)
(* SpecScan: run_scan from the item list to the returned record, one step  *)
(* per collaborator call.                                                  *)
(***************************************************************************)
\* Longest item list.
MaxItems == 2

\* "Fix Auth"
ItemDescription == <<"F", "i", "x", " ", "A", "u", "t", "h">>

\* A CVE of a database, a CVE known from the release notes only, and two
\* bug-fix promises, in the order of all_cves + bug_promises.
ScanItems ==
    << [id |-> "CVE-2024-0001", severity |-> "CRITICAL", source |-> "osv",
        description |-> ItemDescription],
       [id |-> "CVE-2024-0002", severity |-> "UNKNOWN", source |-> "release_notes_only",
        description |-> ItemDescription],
       [id |-> "BUG-001", type |-> "bug_fix", bug_class |-> "buffer_overflow",
        source |-> "release_notes", description |-> ItemDescription],
       [id |-> "BUG-002", type |-> "bug_fix", bug_class |-> "race_condition",
        source |-> "release_notes", description |-> ItemDescription] >>

\* The item lists: ScanItems with some items left out.
ItemLists ==
    { SelectSeq(ScanItems, LAMBDA item : item.id \in ids) :
        ids \in { S \in SUBSET { ScanItems[i].id : i \in DOMAIN ScanItems } :
                    Cardinality(S) <= MaxItems } }

\* diff_versions for the ecosystem: a failed download, a release that changed
\* Auth.py, or two identical releases; line 130's default otherwise.
ScanDiffs(eco) ==
    IF eco \in {"PyPI", "npm"}
    THEN { [available |-> FALSE, reason |-> <<"Could not download one or both versions.">>],
           CompareHashes([f \in Paths |-> "h1"], [f \in Paths |-> "h2"]),
           CompareHashes([f \in Paths |-> "h1"], [f \in Paths |-> "h1"]) }
    ELSE { [available |-> FALSE, reason |-> <<"File diff requires PyPI or npm ecosystem.">>] }

InitScan ==
    /\ ecosystem \in {"PyPI", "npm", "None"}
    /\ skip_probe \in BOOLEAN
    /\ all_items \in ItemLists
    /\ item_ix = 0
    /\ new_probe = Pending /\ old_probe = Pending
    /\ verdicts = <<>>
    /\ scan_ret = Pending
    /\ pc = "run_scan"
    /\ ScoreIdle
    /\ IdleBut({"scan", "score"})

\* `if not all_items: return _save_scan(..., [], [], 0)`
ScanNothing ==
    /\ pc = "run_scan"
    /\ all_items = <<>>
    /\ scan_ret' = SaveScan(<<>>, 0, "NONE")
    /\ pc' = "scan_returned"
    /\ UNCHANGED <<ecosystem, skip_probe, all_items, item_ix, new_probe, old_probe, verdicts,
                   scoreVars>>
    /\ UnchangedBut({"scan", "score"})

\* Phase 3: the file diff of the two releases.
ScanDiff ==
    /\ pc = "run_scan"
    /\ all_items # <<>>
    /\ diff_result' \in ScanDiffs(ecosystem)
    /\ item_ix' = 1
    /\ pc' = "signals"
    /\ UNCHANGED <<ecosystem, skip_probe, all_items, new_probe, old_probe, verdicts, scan_ret,
                   promise, diff_check, cve_check, probe_result, verdict, last_call, calls>>
    /\ UnchangedBut({"scan", "score"})

\* Signals 1 and 2 of the item, and the default probe_result.
ScanSignals ==
    /\ pc = "signals"
    /\ LET item == all_items[item_ix]
       IN  /\ promise' = item
           /\ IF HasRangeCheck(item)
              THEN cve_check' \in CveChecks
              ELSE cve_check' = NoRangeCheck
           /\ diff_check' = FileChangedForPromise(diff_result, item)
           /\ pc' = IF Probing(item) THEN "new_probe" ELSE "score"
    /\ probe_result' = NotApplicable
    /\ new_probe' = Pending /\ old_probe' = Pending
    /\ UNCHANGED <<ecosystem, skip_probe, all_items, item_ix, verdicts, scan_ret,
                   diff_result, verdict, last_call, calls>>
    /\ UnchangedBut({"scan", "score"})

\* An exception of run_probe is caught nowhere in run_scan.
ScanRaise(exception) ==
    /\ scan_ret' = exception
    /\ pc' = "scan_raised"

\* new_probe = run_probe(app_name, new_version, bug_class, ecosystem)
ScanNewProbe ==
    /\ pc = "new_probe"
    /\ \E outcome \in RunProbeOutcomes(promise.bug_class, ecosystem) :
         IF IsRaised(outcome)
         THEN ScanRaise(outcome) /\ UNCHANGED new_probe
         ELSE new_probe' = outcome /\ pc' = "old_probe" /\ UNCHANGED scan_ret
    /\ UNCHANGED <<ecosystem, skip_probe, all_items, item_ix, old_probe, verdicts, scoreVars>>
    /\ UnchangedBut({"scan", "score"})

\* old_probe = run_probe(app_name, old_version, bug_class, ecosystem), and
\* the combination of the two.
ScanOldProbe ==
    /\ pc = "old_probe"
    /\ \E outcome \in RunProbeOutcomes(promise.bug_class, ecosystem) :
         IF IsRaised(outcome)
         THEN ScanRaise(outcome) /\ UNCHANGED <<old_probe, probe_result>>
         ELSE /\ old_probe' = outcome
              /\ probe_result' = CombineProbes(new_probe, outcome)
              /\ pc' = "score"
              /\ UNCHANGED scan_ret
    /\ UNCHANGED <<ecosystem, skip_probe, all_items, item_ix, new_probe, verdicts,
                   promise, diff_result, diff_check, cve_check, verdict, last_call, calls>>
    /\ UnchangedBut({"scan", "score"})

\* verdict = score_promise(...); verdicts.append(...); next item.
ScanScore ==
    /\ pc = "score"
    /\ verdict' = ScorePromise(promise, cve_check, diff_check, probe_result)
    /\ verdicts' = Append(verdicts, VerdictEntry(promise, verdict'))
    /\ IF item_ix < Len(all_items)
       THEN item_ix' = item_ix + 1 /\ pc' = "signals"
       ELSE item_ix' = item_ix /\ pc' = "summary"
    /\ UNCHANGED <<ecosystem, skip_probe, all_items, new_probe, old_probe, scan_ret,
                   promise, diff_result, diff_check, cve_check, probe_result, last_call, calls>>
    /\ UnchangedBut({"scan", "score"})

\* compute_risk_score(verdicts, all_items) and _save_scan.
ScanSummary ==
    /\ pc = "summary"
    /\ LET n == Len(verdicts)
           r == ComputeRiskScore(n, RiskExposed(verdicts, all_items, n), RiskTotal(all_items, n))
       IN  scan_ret' = SaveScan(verdicts, r.score, r.label)
    /\ pc' = "scan_returned"
    /\ UNCHANGED <<ecosystem, skip_probe, all_items, item_ix, new_probe, old_probe, verdicts,
                   scoreVars>>
    /\ UnchangedBut({"scan", "score"})

NextScan ==
    \/ ScanNothing
    \/ ScanDiff
    \/ ScanSignals
    \/ ScanNewProbe
    \/ ScanOldProbe
    \/ ScanScore
    \/ ScanSummary

SpecScan == InitScan /\ [][NextScan]_vars

(***************************************************************************)
(* C14 - C17                                                               *)
(***************************************************************************)
\* Both probe runs of the current item are over.
ProbesDone == pc = "score" /\ new_probe # Pending /\ old_probe # Pending

Ran(result) == Get(result, "ran", FALSE)

ProbeLine(v) == v.signals[3]

\* C14 as stated: when the probe of the new release has come back as
\* ran=true, TIMEOUT, passed=false, then whatever the probe of the old
\* release did the item gets a probe_result that ran and did not pass, and its
\* verdict carries the probe as a negative signal.
C14_Stated ==
    (new_probe = ProbeTimeout /\ pc # "old_probe") =>
        /\ Ran(probe_result) /\ Get(probe_result, "passed", "None") = "False"
        /\ pc # "score" => ProbeLine(verdict)[1] = "bad"

\* C15 as stated: after both probe runs the combined probe signal is positive
\* if and only if the old-release probe ran and failed and the new-release
\* probe ran and passed.
C15_Stated ==
    ProbesDone =>
        ((Ran(probe_result) /\ Get(probe_result, "passed", "None") = "True")
            <=> (/\ Ran(old_probe) /\ Get(old_probe, "passed", "None") = "False"
                 /\ Ran(new_probe) /\ Get(new_probe, "passed", "None") = "True"))

\* C16 as stated: after both probe runs the combined probe signal is negative
\* only if the new-release probe ran and failed.
C16_Stated ==
    ProbesDone =>
        ((Ran(probe_result) /\ Get(probe_result, "passed", "None") = "False")
            => (Ran(new_probe) /\ Get(new_probe, "passed", "None") = "False"))

\* No signal of the verdict carries weight.
NoEvidence(v) == \A k \in 1..3 : v.signals[k][1] \in {"none", "warn"}

\* C17 as stated: run_scan never ends by an exception; the record it returns
\* has exactly one verdict per item; and an item for which no evidence source
\* gave data has the verdict UNCONFIRMED with confidence 30.
C17_Stated ==
    /\ pc # "scan_raised"
    /\ pc = "scan_returned" =>
         /\ scan_ret.total = Len(all_items)
         /\ Len(scan_ret.verdicts) = Len(all_items)
         /\ \A i \in DOMAIN all_items : scan_ret.verdicts[i].id = all_items[i].id
    /\ (pc \in {"signals", "summary"} /\ verdict # Pending /\ NoEvidence(verdict)) =>
         verdict.status = "UNCONFIRMED" /\ verdict.confidence = 30

(***************************************************************************)
(* scanner._merge_cves                                                     *)
(***************************************************************************)
\* `if not x` on a score: None, 0 and the empty string are falsy.  Scores
\* are kept as their text.
HasScore(c) == c.score \notin {"None", "0", ""}

\* The else branch: `existing` updated from a later record of the same id.
MergeInto(existing, c) ==
    LET with_fixed ==
            IF ~Truthy(existing.fixed_in) /\ Truthy(c.fixed_in)
            THEN [existing EXCEPT !.fixed_in = c.fixed_in]
            ELSE existing
    IN  IF ~HasScore(with_fixed) /\ HasScore(c)
        THEN [with_fixed EXCEPT !.score = c.score, !.severity = c.severity]
        ELSE with_fixed

RECURSIVE MergeLoop(_, _, _)
\* `for cve in osv + nvd`, from position i; seen[cid] is the record of merged
\* with that id.
MergeLoop(cves, i, merged) ==
    IF i > Len(cves) THEN merged
    ELSE LET c == cves[i]
             at == { k \in DOMAIN merged : merged[k].id = c.id }
         IN  IF at = {}
             THEN MergeLoop(cves, i + 1, Append(merged, c))
             ELSE LET k == CHOOSE k \in at : TRUE
                  IN  MergeLoop(cves, i + 1, [merged EXCEPT ![k] = MergeInto(@, c)])

MergeCves(osv, nvd) == MergeLoop(osv \o nvd, 1, <<>>)

(***************************************************************************)
(* SpecMerge: _merge_cves on the two lookups' answers, then                *)
(* check_version_fixed on a merged record.                                 *)
(***************************************************************************)
\* Most records one lookup returns.
MaxCves == 1

CveIds == {"CVE-2024-0001", "CVE-2024-0002"}

MergeVersions == { <<"1">>, <<"2">> }

\* _parse_osv_item: a fixed version or none, never affected_below.
OsvRecords ==
    [ id : CveIds, fixed_in : MergeVersions \cup {None}, affected_below : {None},
      score : {"None", "9.8"}, severity : {"CRITICAL"}, source : {"osv"} ]

\* _parse_nvd_item: versionEndExcluding as fixed_in, versionEndIncluding as
\* affected_below.
NvdRecords ==
    [ id : CveIds, fixed_in : MergeVersions \cup {None}, affected_below : {<<"1">>, None},
      score : {"None", "7.5"}, severity : {"HIGH"}, source : {"nvd"} ]

InitMerge ==
    /\ osv_cves \in SeqsUpTo(OsvRecords, MaxCves)
    /\ nvd_cves \in SeqsUpTo(NvdRecords, MaxCves)
    /\ all_cves = Pending
    /\ new_version \in MergeVersions \cup { <<"x">> }
    /\ cve = Pending
    /\ range_check = Pending
    /\ pc = "merge_cves"
    /\ IdleBut({"merge", "version"})

\* all_cves = _merge_cves(osv_cves, nvd_cves)
CallMergeCves ==
    /\ pc = "merge_cves"
    /\ all_cves' = MergeCves(osv_cves, nvd_cves)
    /\ pc' = "merged"
    /\ UNCHANGED <<osv_cves, nvd_cves, versionVars>>
    /\ UnchangedBut({"merge", "version"})

\* cve_check = check_version_fixed(item, new_version) for an item of all_cves.
CheckMerged ==
    /\ pc = "merged"
    /\ \E i \in DOMAIN all_cves :
         /\ cve' = all_cves[i]
         /\ range_check' = CheckVersionFixed(all_cves[i], new_version)
    /\ pc' = "range_checked"
    /\ UNCHANGED <<new_version, mergeVars>>
    /\ UnchangedBut({"merge", "version"})

NextMerge == CallMergeCves \/ CheckMerged

SpecMerge == InitMerge /\ [][NextMerge]_vars

(***************************************************************************)
(* C18                                                                     *)
(***************************************************************************)
HasRange(c) == Truthy(c.fixed_in) \/ Truthy(c.affected_below)

WithId(cves, id) == { k \in DOMAIN cves : cves[k].id = id }

\* C18 as stated: for an id reported once by each lookup the merged list has
\* one record; if exactly one of the two source records has a range,
\* check_version_fixed on the merged record with a parseable new version does
\* not return fixed=null; and when both have fixed_in the OSV value is kept.
C18_Stated ==
    (/\ pc = "range_checked"
     /\ Cardinality(WithId(osv_cves, cve.id)) = 1
     /\ Cardinality(WithId(nvd_cves, cve.id)) = 1) =>
        LET o == osv_cves[CHOOSE k \in WithId(osv_cves, cve.id) : TRUE]
            n == nvd_cves[CHOOSE k \in WithId(nvd_cves, cve.id) : TRUE]
        IN  /\ Cardinality(WithId(all_cves, cve.id)) = 1
            /\ (HasRange(o) # HasRange(n) /\ Version(new_version).valid) =>
                 range_check.fixed # "None"
            /\ (Truthy(o.fixed_in) /\ Truthy(n.fixed_in)) => cve.fixed_in = o.fixed_in

(***************************************************************************)
(* scanner._save_scan and cli.scanner._save_to_history                     *)
(* The history file holds the JSON text of a list of records.  A record    *)
(* is made of strings, numbers and lists of such, which json.dump writes   *)
(* and json.load reads back unchanged; the text is kept as the list it     *)
(* denotes.                                                                *)
(***************************************************************************)
\* history[:100]
HistoryCap == 100

JsonDump(list) == [text |-> list]

JsonLoad(file) == file.text

\* `history = []`, replaced by the file's list if HISTORY_FILE.exists().
ReadHistory(file) == IF file = Pending THEN <<>> ELSE JsonLoad(file)

\* An insertion at the end of the list.
InsertLast(list, r) == Append(list, r)

\* history.insert(0, record)
InsertFirst(list, r) == <<r>> \o list

\* What is written: history[:100] of the list after the insertion.
WriteHistory(list) == JsonDump(Take(list, HistoryCap))

\* The record of the n-th scan: scan_id is fresh for every scan.
ScanRecord(n, entry) == [scan_id |-> n, entry |-> entry]

(***************************************************************************)
(* SpecHistory: scans run one after another, each saving its record.       *)
(***************************************************************************)
\* Scans in a row.
MaxScans == 102

InitHistory ==
    /\ history_file = Pending
    /\ history = <<>>
    /\ record = Pending
    /\ scans = 0
    /\ saver \in {"scanner", "cli"}
    /\ pc = "idle"
    /\ IdleBut({"history"})

\* A scan reaches its call of _save_scan / _save_to_history.
ScanCompletes ==
    /\ pc = "idle"
    /\ scans < MaxScans
    /\ record' = ScanRecord(scans + 1, saver)
    /\ pc' = "read_history"
    /\ UNCHANGED <<history_file, history, scans, saver>>
    /\ UnchangedBut({"history"})

\* The history file is read.
SaveRead ==
    /\ pc = "read_history"
    /\ history' = ReadHistory(history_file)
    /\ pc' = "write_history"
    /\ UNCHANGED <<history_file, record, scans, saver>>
    /\ UnchangedBut({"history"})

\* The record is inserted and the first 100 entries are written back.
SaveWrite ==
    /\ pc = "write_history"
    /\ history' = InsertFirst(history, record)
    /\ history_file' = WriteHistory(history')
    /\ scans' = scans + 1
    /\ pc' = "idle"
    /\ UNCHANGED <<record, saver>>
    /\ UnchangedBut({"history"})

NextHistory == ScanCompletes \/ SaveRead \/ SaveWrite

SpecHistory == InitHistory /\ [][NextHistory]_vars

(***************************************************************************)
(* C19                                                                     *)
(***************************************************************************)
Stored == ReadHistory(history_file)

\* C19: whenever n scans have completed and no save is under way, the history
\* holds min(n, 100) records, and its i-th record is the unchanged record of
\* the i-th most recent scan: newest first, one record per scan, nothing but
\* the oldest records dropped.
C19_HistoryKeepsRecent ==
    pc = "idle" =>
        /\ Len(Stored) = Min(scans, HistoryCap)
        /\ \A i \in 1..Len(Stored) : Stored[i] = ScanRecord(scans - i + 1, saver)

\* The 101st scan has been saved: the history is full and the first scan's
\* record is the one that went.
C19_Witness ==
    /\ pc = "idle" /\ scans = HistoryCap + 1
    /\ Len(Stored) = HistoryCap
    /\ Stored[1].scan_id = HistoryCap + 1
    /\ Stored[HistoryCap].scan_id = 2

(***************************************************************************)
(* SpecInterpret: _interpret_probe_output on its own, over outputs that    *)
(* follow the token contract and outputs that do not.                      *)
(***************************************************************************)
InterpretOutputs ==
    Outputs \cup
    { <<"HANDLED:", <<"f">>>>, <<"VALIDATED:", <<"f">>>>, <<"CRASH", <<>>>>,
      <<"LEAK:", <<>>>>, <<"LEAK", <<>>>>, <<"STABLE:", <<>>>>, <<"STABLE", <<>>>>,
      <<"CRASH:", <<>>>>, <<"ISSUE", <<>>>>, <<"OVERFLOW:", <<>>>>, <<"UNHANDLED", <<>>>> }

InitInterpret ==
    /\ probe_args \in [output : InterpretOutputs, bug_class : PROBES \cup {"race_condition"}]
    /\ probe_ret = Pending
    /\ probe_pc = Pending /\ tmpdir = Pending
    /\ tmpdirs = {}
    /\ probe_log = Pending /\ probe_calls = Pending
    /\ pc = "interpret_probe_output"
    /\ IdleBut({"probe"})

CallInterpretProbeOutput ==
    /\ pc = "interpret_probe_output"
    /\ probe_ret' = InterpretProbeOutput(probe_args.output, probe_args.bug_class)
    /\ pc' = "interpreted"
    /\ UNCHANGED <<probe_args, probe_pc, tmpdir, tmpdirs, probe_log, probe_calls>>
    /\ UnchangedBut({"probe"})

NextInterpret == CallInterpretProbeOutput

SpecInterpret == InitInterpret /\ [][NextInterpret]_vars

(***************************************************************************)
(* C21                                                                     *)
(***************************************************************************)
\* The token contract: the failure prefix of each class and its outcome.
FailurePrefix ==
    [ buffer_overflow   |-> "CRASH:",     memory_leak      |-> "LEAK:",
      input_validation  |-> "UNHANDLED:", integer_overflow |-> "OVERFLOW:",
      denial_of_service |-> "ISSUE:" ]

FailureOutcome ==
    [ buffer_overflow   |-> "CRASH",     memory_leak      |-> "LEAK",
      input_validation  |-> "UNHANDLED", integer_overflow |-> "OVERFLOW",
      denial_of_service |-> "ISSUE" ]

IsFailureToken(output, bug_class) ==
    bug_class \in DOMAIN FailurePrefix /\ output[1] = FailurePrefix[bug_class]

IsSuccessToken(output, bug_class) ==
    \/ bug_class \in {"buffer_overflow", "integer_overflow", "denial_of_service"}
         /\ output = <<"HANDLED", <<>>>>
    \/ bug_class = "memory_leak" /\ output[1] = "STABLE:"
    \/ bug_class = "input_validation" /\ output = <<"VALIDATED", <<>>>>

\* C21 as stated: IMPORT_ERROR gives a result without polarity; the failure
\* token of the class gives ran=true, that outcome, passed=false; its success
\* token gives passed=true; every other output gives UNKNOWN, passed=null.
C21_Stated ==
    pc = "interpreted" =>
        LET o == probe_args.output
            c == probe_args.bug_class
            r == probe_ret
        IN  IF o = <<"IMPORT_ERROR", <<>>>>
            THEN "passed" \notin DOMAIN r /\ Get(r, "ran", TRUE) = FALSE
            ELSE IF IsFailureToken(o, c)
            THEN /\ Get(r, "ran", FALSE)
                 /\ Get(r, "result", "") = FailureOutcome[c]
                 /\ Get(r, "passed", "") = "False"
            ELSE IF IsSuccessToken(o, c)
            THEN Get(r, "ran", FALSE) /\ Get(r, "passed", "") = "True"
            ELSE /\ Get(r, "ran", FALSE)
                 /\ Get(r, "result", "") = "UNKNOWN"
                 /\ Get(r, "passed", "") = "None"

(***************************************************************************)
(* C22, C24                                                                *)
(***************************************************************************)
\* The invocation of process p has entered _run_python_probe/_run_node_probe
\* far enough to have a sandbox (it has left NOT_RUN).
Started(p) == probe_log[p] # <<>>

LastStep(p) == probe_log[p][Len(probe_log[p])]

Completed(p) ==
    probe_pc[p] = "returned" /\ LastStep(p) = "exec" /\ probe_ret[p] # ProbeTimeout

TimedOut(p) ==
    probe_pc[p] = "returned" /\ LastStep(p) = "exec" /\ probe_ret[p] = ProbeTimeout

InstallFailure(p) ==
    probe_pc[p] = "returned" /\ LastStep(p) = "install" /\ probe_ret[p] = InstallFailed

\* C22 as stated: the steps of an invocation come in the order install, then
\* script; the script runs only after a successful install; an invocation
\* that ended after its install step returned ran=false and never executed
\* the script; and an invocation that is no longer installing or running has
\* ended in exactly one of COMPLETED, TIMEOUT, INSTALL_FAILED.
C22_Stated ==
    \A p \in Procs :
        Started(p) =>
            /\ probe_log[p] \in { <<"mkdtemp", "write_script">>,
                                  <<"mkdtemp", "write_script", "install">>,
                                  <<"mkdtemp", "write_script", "install", "exec">> }
            /\ probe_pc[p] = "install" <=> LastStep(p) = "write_script"
            /\ probe_pc[p] \notin {"install", "exec"} =>
                 \/ Completed(p) /\ ~TimedOut(p) /\ ~InstallFailure(p)
                 \/ TimedOut(p) /\ ~Completed(p) /\ ~InstallFailure(p)
                 \/ InstallFailure(p) /\ ~Completed(p) /\ ~TimedOut(p)
            /\ InstallFailure(p) => probe_ret[p].ran = FALSE

\* C24 as stated: run_probe never raises; it always returns a result with a
\* ran field, and an invocation whose install or script process failed
\* (timed out installing, could not be started) returns ran=false with a
\* reason.
C24_Stated ==
    \A p \in Procs :
        /\ probe_pc[p] # "raised"
        /\ probe_pc[p] = "returned" =>
             /\ "ran" \in DOMAIN probe_ret[p]
             /\ (Started(p) /\ LastStep(p) = "install") =>
                  probe_ret[p].ran = FALSE /\ "reason" \in DOMAIN probe_ret[p]

(***************************************************************************)
(* C23                                                                     *)
(***************************************************************************)
\* C23 as stated: when an item reaches the fusion of its verdict in a scan
\* that does not skip probing, and its bug class is in the catalog and the
\* ecosystem is PyPI or npm, run_probe has been invoked for the new and for
\* the old release; with skip_probe set run_probe is invoked for no item and
\* the probe signal handed to the scorer did not run.
C23_Stated ==
    /\ (/\ pc = "score"
        /\ ~skip_probe
        /\ Get(promise, "bug_class", "None") \in PROBES
        /\ ecosystem \in {"PyPI", "npm"})
         => new_probe # Pending /\ old_probe # Pending
    /\ (skip_probe = TRUE) =>
         /\ new_probe = Pending /\ old_probe = Pending
         /\ pc \notin {"new_probe", "old_probe"}
         /\ Get(probe_result, "ran", FALSE) = FALSE

(***************************************************************************)
(* C25                                                                     *)
(***************************************************************************)
\* C25 as stated: for an available diff, files_changed=false is returned
\* only when the diff of the two releases lists no changed, no added and no
\* removed file.
C25_Stated ==
    (Diffed /\ diff_check.files_changed = "False") =>
        /\ diff_result.changed = <<>>
        /\ diff_result.added = <<>>
        /\ diff_result.removed = <<>>

(***************************************************************************)
(* C27                                                                     *)
(***************************************************************************)
StatusRank(status) ==
    IF status = "FIXED" THEN 2 ELSE IF status = "UNCONFIRMED" THEN 1 ELSE 0

\* The diff check of a relevant file change.
RelevantDiffCheck ==
    [checked |-> TRUE, files_changed |-> "True",
     relevant_changes |-> <<>>, reason |-> <<"Relevant file(s) changed">>]

\* C27 as stated: a verdict scored with an unclear file diff has neither a
\* higher status nor a higher confidence than the verdict the same range and
\* probe signals give with a relevant file change, and a strictly lower
\* confidence when the file diff is the only signal with weight.
C27_Stated ==
    (Scored /\ DiffChecked /\ DiffPolarity = "None") =>
        LET relevant == ScorePromise(promise, cve_check, RelevantDiffCheck, probe_result)
        IN  /\ StatusRank(verdict.status) <= StatusRank(relevant.status)
            /\ verdict.confidence <= relevant.confidence
            /\ (CveFixed = "None" /\ (~ProbeRan \/ ProbePassed = "None"))
                 => verdict.confidence < relevant.confidence

(***************************************************************************)
(* SpecCli: run_scan of src/cli/scanner.py, the scan the command line      *)
(* runs: both lookups, check_version_fixed per record, the risk score and  *)
(* its label, and the result.                                              *)
(***************************************************************************)
\* Scores float() accepts, in tenths.
ScoreTenths == [s \in {"9.8", "7.5"} |-> IF s = "9.8" THEN 98 ELSE 75]

\* `if cve["score"]:` and float(cve["score"]) succeeding.
Numeric(c) == HasScore(c) /\ c.score \in DOMAIN ScoreTenths

\* old_cves: NVD's records, then OSV's when an ecosystem was detected.
OldCves(nvd, osv, eco) == IF eco # "None" THEN nvd \o osv ELSE nvd

CveDetails(cves, version) ==
    [ i \in DOMAIN cves |->
        LET check_result == CheckVersionFixed(cves[i], version)
        IN  [ id       |-> cves[i].id,
              severity |-> cves[i].severity,
              score    |-> cves[i].score,
              fixed    |-> check_result.fixed,
              method   |-> check_result.method ] ]

CountFixed(details, value) ==
    Cardinality({ i \in DOMAIN details : details[i].fixed = value })

RECURSIVE TotalScore(_, _, _)
\* total_score in tenths over the records from position i.
TotalScore(cves, version, i) ==
    IF i > Len(cves) THEN 0
    ELSE (IF Numeric(cves[i]) /\ CheckVersionFixed(cves[i], version).fixed # "True"
          THEN ScoreTenths[cves[i].score] ELSE 0)
         + TotalScore(cves, version, i + 1)

\* max_possible: 10 per record with a numeric score.
MaxPossible(cves) == 10 * Cardinality({ i \in DOMAIN cves : Numeric(cves[i]) })

\* min(100, int((total_score / max_possible) * 100))
CliRiskScore(cves, version) ==
    LET max_possible == MaxPossible(cves)
        total        == TotalScore(cves, version, 1)
        scaled       == (total * 100) \div (max_possible * 10)
    IN  IF max_possible > 0
        THEN (IF scaled < 100 THEN scaled ELSE 100)
        ELSE 0

CliRiskLabel(risk_score) ==
    IF risk_score >= 80 THEN "CRITICAL"
    ELSE IF risk_score >= 60 THEN "HIGH"
    ELSE IF risk_score >= 40 THEN "MEDIUM"
    ELSE IF risk_score >= 20 THEN "LOW"
    ELSE "NONE"

InitCli ==
    /\ ecosystem \in {"PyPI", "None"}
    /\ nvd_cves \in SeqsUpTo(NvdRecords, MaxCves)
    /\ osv_cves \in SeqsUpTo(OsvRecords, MaxCves)
    /\ all_cves = Pending
    /\ new_version \in MergeVersions \cup { <<"x">> }
    /\ cve = Pending /\ range_check = Pending
    /\ skip_probe = Pending /\ all_items = Pending
    /\ item_ix = 0
    /\ new_probe = Pending /\ old_probe = Pending
    /\ verdicts = Pending
    /\ scan_ret = Pending
    /\ pc = "cli_run_scan"
    /\ IdleBut({"merge", "version", "scan"})

\* Step 2: old_cves.extend(nvd_cves); old_cves.extend(osv_cves)
CliQuery ==
    /\ pc = "cli_run_scan"
    /\ all_cves' = OldCves(nvd_cves, osv_cves, ecosystem)
    /\ pc' = "cli_check"
    /\ UNCHANGED <<osv_cves, nvd_cves, versionVars, ecosystem, skip_probe, all_items, item_ix,
                   new_probe, old_probe, verdicts, scan_ret>>
    /\ UnchangedBut({"merge", "version", "scan"})

\* Step 3: one cve_details entry and one count per record of old_cves.
CliCheck ==
    /\ pc = "cli_check"
    /\ verdicts' = CveDetails(all_cves, new_version)
    /\ pc' = "cli_risk"
    /\ UNCHANGED <<mergeVars, versionVars, ecosystem, skip_probe, all_items, item_ix,
                   new_probe, old_probe, scan_ret>>
    /\ UnchangedBut({"merge", "version", "scan"})

\* Step 4: the risk score, its label and the result.
CliRisk ==
    /\ pc = "cli_risk"
    /\ LET risk_score == CliRiskScore(all_cves, new_version)
       IN  scan_ret' = [ fixed       |-> CountFixed(verdicts, "True"),
                         not_fixed   |-> CountFixed(verdicts, "False"),
                         unconfirmed |-> CountFixed(verdicts, "None"),
                         total       |-> Len(all_cves),
                         risk_score  |-> risk_score,
                         risk_label  |-> CliRiskLabel(risk_score),
                         cve_details |-> verdicts,
                         ecosystem   |-> IF ecosystem # "None" THEN ecosystem ELSE "Unknown" ]
    /\ pc' = "cli_returned"
    /\ UNCHANGED <<mergeVars, versionVars, ecosystem, skip_probe, all_items, item_ix,
                   new_probe, old_probe, verdicts>>
    /\ UnchangedBut({"merge", "version", "scan"})

NextCli == CliQuery \/ CliCheck \/ CliRisk

SpecCli == InitCli /\ [][NextCli]_vars

(***************************************************************************)
(* C26, C30                                                                *)
(***************************************************************************)
CliReturned == pc = "cli_returned"

DetailIds == { scan_ret.cve_details[i].id : i \in DOMAIN scan_ret.cve_details }

\* C26 as stated: the record of a scan has at most one detail entry per
\* vulnerability id, and its fixed, not_fixed and unconfirmed counts add up
\* to the number of distinct ids.
C26_Stated ==
    CliReturned =>
        /\ \A i, j \in DOMAIN scan_ret.cve_details :
             scan_ret.cve_details[i].id = scan_ret.cve_details[j].id => i = j
        /\ scan_ret.fixed + scan_ret.not_fixed + scan_ret.unconfirmed
             = Cardinality(DetailIds)
        /\ scan_ret.total = Cardinality(DetailIds)

\* The thresholds of the risk aggregator.
AggregatorLabel(score) ==
    IF score >= 70 THEN "CRITICAL"
    ELSE IF score >= 45 THEN "HIGH"
    ELSE IF score >= 20 THEN "MEDIUM"
    ELSE IF score > 0 THEN "LOW"
    ELSE "NONE"

\* C30 as stated: the label of the command-line scan's result is the one
\* the aggregator's thresholds give its risk score: >= 70 CRITICAL, >= 45
\* HIGH, >= 20 MEDIUM, > 0 LOW, else NONE.
C30_Stated ==
    CliReturned => scan_ret.risk_label = AggregatorLabel(scan_ret.risk_score)

(***************************************************************************)
(* SpecSavers: two scans in separate processes save their records; the     *)
(* steps of _save_scan / _save_to_history interleave.  open(.., "w")       *)
(* truncates the file before json.dump fills it.                           *)
(***************************************************************************)
\* Saves per process.
MaxSaves == 2

\* The file between open(HISTORY_FILE, "w") and the end of json.dump.
Truncated == [truncated |-> TRUE]

\* json.load of the file as a concurrent reader finds it: the list, or
\* JSONDecodeError on a file that is being rewritten.
LoadHistory(file) ==
    IF file = Truncated THEN Raised("JSONDecodeError") ELSE ReadHistory(file)

\* A record saved by an earlier scan.
EarlierRecord == ScanRecord(<<0, 0>>, "scanner")

InitSavers ==
    /\ history_file \in {Pending, JsonDump(<<>>), JsonDump(<<EarlierRecord>>)}
    /\ history = [p \in Procs |-> <<>>]
    /\ record = [p \in Procs |-> Pending]
    /\ scans = [p \in Procs |-> 0]
    /\ saver \in [Procs -> {"scanner", "cli"}]
    /\ pc = [p \in Procs |-> "idle"]
    /\ IdleBut({"history"})

\* A scan of process p completes and reaches its save.
SaveStart(p) ==
    /\ pc[p] = "idle"
    /\ scans[p] < MaxSaves
    /\ record' = [record EXCEPT ![p] = ScanRecord(<<p, scans[p] + 1>>, saver[p])]
    /\ pc' = [pc EXCEPT ![p] = "read_history"]
    /\ UNCHANGED <<history_file, history, scans, saver>>
    /\ UnchangedBut({"history"})

\* The read: _save_scan falls back to [] on any exception, _save_to_history
\* lets it escape.
SaveLoad(p) ==
    /\ pc[p] = "read_history"
    /\ LET loaded == LoadHistory(history_file)
       IN  IF history_file = Truncated
           THEN IF saver[p] = "scanner"
                THEN /\ history' = [history EXCEPT ![p] = <<>>]
                     /\ pc' = [pc EXCEPT ![p] = "insert"]
                ELSE /\ history' = history
                     /\ pc' = [pc EXCEPT ![p] = "raised"]
           ELSE /\ history' = [history EXCEPT ![p] = loaded]
                /\ pc' = [pc EXCEPT ![p] = "insert"]
    /\ UNCHANGED <<history_file, record, scans, saver>>
    /\ UnchangedBut({"history"})

\* history.insert(0, record) and open(HISTORY_FILE, "w").
SaveOpen(p) ==
    /\ pc[p] = "insert"
    /\ history' = [history EXCEPT ![p] = InsertFirst(@, record[p])]
    /\ history_file' = Truncated
    /\ pc' = [pc EXCEPT ![p] = "dump"]
    /\ UNCHANGED <<record, scans, saver>>
    /\ UnchangedBut({"history"})

\* json.dump(history[:100], f) and the close of the file.
SaveDump(p) ==
    /\ pc[p] = "dump"
    /\ history_file' = WriteHistory(history[p])
    /\ scans' = [scans EXCEPT ![p] = @ + 1]
    /\ pc' = [pc EXCEPT ![p] = "idle"]
    /\ UNCHANGED <<history, record, saver>>
    /\ UnchangedBut({"history"})

NextSavers == \E p \in Procs : SaveStart(p) \/ SaveLoad(p) \/ SaveOpen(p) \/ SaveDump(p)

SpecSavers == InitSavers /\ [][NextSavers]_vars

(***************************************************************************)
(* C28                                                                     *)
(***************************************************************************)
StoredRecords ==
    IF history_file \in {Pending, Truncated} THEN {}
    ELSE { JsonLoad(history_file)[i] : i \in DOMAIN JsonLoad(history_file) }

\* C28 as stated: whenever no save is under way, the history holds the
\* record of every save that either process has completed (far fewer than
\* 100 records exist).
C28_Stated ==
    (\A p \in Procs : pc[p] = "idle") =>
        \A p \in Procs : \A n \in 1..scans[p] :
            ScanRecord(<<p, n>>, saver[p]) \in StoredRecords

(***************************************************************************)
(* SpecStream: two command-line scans in separate processes report their   *)
(* progress to the one stream file.  Every streamer call reads the file,   *)
(* changes its own copy and rewrites the file; the steps interleave.       *)
(***************************************************************************)
\* The streamer calls of one run_scan, in order.
StreamCalls ==
    << [fn |-> "init_stream"],
       [fn |-> "update_stream", status |-> "initializing", progress |-> 10],
       [fn |-> "update_stream", event |-> TRUE],
       [fn |-> "update_stream", status |-> "scanning", progress |-> 30],
       [fn |-> "update_stream", status |-> "scanning", progress |-> 60],
       [fn |-> "update_stream", status |-> "scanning", progress |-> 90],
       [fn |-> "complete_stream"] >>

\* init_stream's stream_data.
InitStream(scan_id) ==
    [scan_id |-> scan_id, status |-> "starting", progress |-> 0, events |-> 0,
     result |-> 0]

\* update_stream on the data read.
UpdateStream(data, call) ==
    LET with_status == IF "status" \in DOMAIN call
                       THEN [data EXCEPT !.status = call.status] ELSE data
        with_progress == IF "progress" \in DOMAIN call
                         THEN [with_status EXCEPT !.progress = call.progress]
                         ELSE with_status
    IN  IF "event" \in DOMAIN call
        THEN [with_progress EXCEPT !.events = @ + 1]
        ELSE with_progress

\* complete_stream on the data read; the result is that of the caller's scan.
CompleteStream(data, scan_id) ==
    [data EXCEPT !.status = "complete", !.progress = 100, !.result = scan_id]

\* The stream a finished earlier scan left behind.
EarlierStream == CompleteStream(InitStream(3), 3)

IsStream(file) == file # Pending /\ file # Truncated

InitStreams ==
    /\ stream_file \in {Pending, EarlierStream}
    /\ stream_data = [p \in Procs |-> Pending]
    /\ stream_call = [p \in Procs |-> 1]
    /\ pc = [p \in Procs |-> "call"]
    /\ IdleBut({"stream"})

\* The call of scan p returns; the scan goes on to its next call.
StreamReturn(p) ==
    IF stream_call[p] < Len(StreamCalls)
    THEN /\ stream_call' = [stream_call EXCEPT ![p] = @ + 1]
         /\ pc' = [pc EXCEPT ![p] = "call"]
    ELSE /\ stream_call' = stream_call
         /\ pc' = [pc EXCEPT ![p] = "done"]

\* init_stream(scan_id, ...) up to its _write_stream.
CallInitStream(p) ==
    /\ pc[p] = "call"
    /\ StreamCalls[stream_call[p]].fn = "init_stream"
    /\ stream_data' = [stream_data EXCEPT ![p] = InitStream(p)]
    /\ pc' = [pc EXCEPT ![p] = "open"]
    /\ UNCHANGED <<stream_file, stream_call>>
    /\ UnchangedBut({"stream"})

\* update_stream / complete_stream: _read_stream, the scan_id test, and the
\* change of the local copy.  json.load of a file that is being rewritten
\* raises, and nothing in run_scan catches it.
ReadStream(p) ==
    /\ pc[p] = "call"
    /\ StreamCalls[stream_call[p]].fn # "init_stream"
    /\ IF stream_file = Truncated
       THEN /\ pc' = [pc EXCEPT ![p] = "raised"]
            /\ UNCHANGED <<stream_data, stream_call>>
       ELSE IF stream_file = Pending \/ stream_file.scan_id # p
       THEN StreamReturn(p) /\ UNCHANGED stream_data
       ELSE /\ stream_data' =
                 [stream_data EXCEPT ![p] =
                    IF StreamCalls[stream_call[p]].fn = "complete_stream"
                    THEN CompleteStream(stream_file, p)
                    ELSE UpdateStream(stream_file, StreamCalls[stream_call[p]])]
            /\ pc' = [pc EXCEPT ![p] = "open"]
            /\ UNCHANGED stream_call
    /\ UNCHANGED stream_file
    /\ UnchangedBut({"stream"})

\* _write_stream: open(STREAM_FILE, "w").
OpenStream(p) ==
    /\ pc[p] = "open"
    /\ stream_file' = Truncated
    /\ pc' = [pc EXCEPT ![p] = "dump"]
    /\ UNCHANGED <<stream_data, stream_call>>
    /\ UnchangedBut({"stream"})

\* _write_stream: json.dump(data, f) and the close of the file.
WriteStream(p) ==
    /\ pc[p] = "dump"
    /\ stream_file' = stream_data[p]
    /\ StreamReturn(p)
    /\ UNCHANGED stream_data
    /\ UnchangedBut({"stream"})

NextStream ==
    \E p \in Procs : CallInitStream(p) \/ ReadStream(p) \/ OpenStream(p) \/ WriteStream(p)

SpecStream == InitStreams /\ [][NextStream]_vars

(***************************************************************************)
(* C29                                                                     *)
(***************************************************************************)
\* The progress the stream of a scan shows before its i-th call.
ProgressBefore(i) ==
    IF i <= 2 THEN 0 ELSE IF i <= 4 THEN 10 ELSE IF i = 5 THEN 30
    ELSE IF i = 6 THEN 60 ELSE 90

\* A step in which scan p starts to write the result of an update_stream or
\* complete_stream call.
UpdateWrites(p) ==
    /\ pc[p] = "open" /\ pc'[p] = "dump"
    /\ StreamCalls[stream_call[p]].fn # "init_stream"

\* C29 as stated: an update_stream or complete_stream call of a scan writes
\* only over the stream of that same scan, never over a stream another scan
\* has initialised since; the stream shows status complete exactly with
\* progress 100 and the result of the scan it names; and between the calls
\* of a scan its stream shows the progress its last call set.
C29_Stated ==
    [][ /\ \A p \in Procs :
             (UpdateWrites(p) /\ IsStream(stream_file)) => stream_file.scan_id = p
        /\ IsStream(stream_file') =>
             /\ stream_file'.status = "complete" <=> stream_file'.progress = 100
             /\ stream_file'.status = "complete" <=>
                  stream_file'.result = stream_file'.scan_id
             /\ stream_file'.result \in {0, stream_file'.scan_id}
             /\ \A p \in Procs :
                  (stream_file'.scan_id = p /\ pc'[p] = "call") =>
                      stream_file'.progress = ProgressBefore(stream_call'[p])
      ]_vars

====
